---- MODULE Spec2Model ----
(***************************************************************************)
(* Model of the nomos-da FFI wrapper (src/ffi-wrapper/src/lib.rs) and of   *)
(* the data-availability core it calls (padder, chunker, row encoder,      *)
(* commitment engine, share assembler, verifier, reconstructor).           *)
(*                                                                         *)
(* The wrapper is translated from lib.rs.  The core lives in the crates    *)
(* kzgrs / kzgrs_backend, which are not part of the source tree; it is     *)
(* modelled from the design document (spec.md, sections 3 and 4) over a    *)
(* small prime field that stands for the BLS12-381 scalar field:           *)
(*   - a chunk is a sequence of ChunkSize bytes; arithmetic on chunks is   *)
(*     componentwise in GF(FieldModulus), so that every byte is a field    *)
(*     element and the row code is a real Reed-Solomon code;               *)
(*   - a row commitment is the ideal (perfectly binding) commitment: it    *)
(*     determines the row polynomial; a combined column proof names the    *)
(*     evaluation point it opens and the number of rows it covers.         *)
(***************************************************************************)
EXTENDS Integers, Sequences, FiniteSets, Bags, TLC

VARIABLES
    encoder,        \* caller's *mut EncoderHandle: [tag, column_count]
    verifier,       \* caller's *mut VerifierHandle: [tag]
    original_data,  \* caller's input buffer of the blob it encoded (Null before)
    out_handle,     \* caller's *mut EncodedDataHandle: Null or [tag, data: EncodedData]
    share_handles,  \* caller's array of *mut ShareHandle (Null or [tag, share: DaShare])
    last_error,     \* thread-local LAST_ERROR: Null or [tag, text]
    peer_error,     \* LAST_ERROR of a second thread of the caller
    commitments_handle, \* caller's *mut CommitmentsHandle: Null or [tag, commitments]
    buffer,         \* caller's serialized buffer and length: Null or [tag, bytes]
    heap,           \* the boxes handed out by Box::into_raw and not yet freed (a bag)
    ret             \* the last call: its name, arguments, result, what it invoked,
                    \* and its output slot before and after

\* the state of the handles the caller owns besides the encoding and its shares
owned == <<commitments_handle, buffer, heap>>

vars == <<encoder, verifier, original_data, out_handle, share_handles,
          last_error, peer_error, owned, ret>>

----------------------------------------------------------------------------
(* Bounds of the model *)

\* largest blob, in chunks
MaxChunks == 3
\* number of slots in the caller's array of share handles
MaxShares == 2

\* column counts the caller constructs encoders with
ColumnCounts == {2, 4}
\* rows_domain_size arguments the caller passes to verify
DomainSizes == {0, 1, 2, 4}
\* byte deltas the caller adds to a byte it flips
FlipDeltas == {1}
\* multipliers of the test data pattern
DataSeeds == {1}

----------------------------------------------------------------------------
(* Program constants *)

\* DaEncoderParams::MAX_BLS12_381_ENCODING_CHUNK_SIZE
ChunkSize == 31

\* The scalar field: a prime above every byte value, with 2-power roots of unity.
FieldModulus == 257
FieldGenerator == 3

\* NomosDaResult
Success == "Success"
ErrorInvalidInput == "ErrorInvalidInput"
ErrorInternal == "ErrorInternal"
ErrorAllocation == "ErrorAllocation"

\* ptr::null_mut()
Null == [tag |-> "null"]

----------------------------------------------------------------------------
(* Field arithmetic *)

RECURSIVE FPow(_, _)
FPow(a, e) ==
    IF e = 0 THEN 1
    ELSE LET h == FPow(a, e \div 2)
             s == (h * h) % FieldModulus
         IN IF e % 2 = 1 THEN (s * a) % FieldModulus ELSE s

FInv(a) == FPow(a, FieldModulus - 2)

FSub(a, b) == (a - b + FieldModulus) % FieldModulus

RECURSIVE NextPow2From(_, _)
NextPow2From(p, n) == IF p >= n THEN p ELSE NextPow2From(2 * p, n)

\* size of the evaluation domain built for n points
DomainSize(n) == NextPow2From(1, n)

\* the i-th point (0-based) of the evaluation domain built for n points
DomainElement(n, i) ==
    FPow(FPow(FieldGenerator, (FieldModulus - 1) \div DomainSize(n)), i)

RECURSIVE SeqProd(_)
SeqProd(s) ==
    IF s = <<>> THEN 1 ELSE (Head(s) * SeqProd(Tail(s))) % FieldModulus

\* Lagrange basis value L_i(x) over the points xs (1-based i)
LagrangeBasis(xs, i, x) ==
    SeqProd([j \in 1..Len(xs) |->
        IF j = i THEN 1
        ELSE (FSub(x, xs[j]) * FInv(FSub(xs[i], xs[j]))) % FieldModulus])

ZeroChunk == [b \in 1..ChunkSize |-> 0]

\* the Lagrange basis values L_1(x) .. L_n(x) over the points xs
RECURSIVE LagrangeWeights(_, _, _)
LagrangeWeights(xs, n, x) ==
    IF n = 0 THEN <<>>
    ELSE Append(LagrangeWeights(xs, n - 1, x), LagrangeBasis(xs, n, x))

\* w[1] * ys[1][b] + ... + w[n] * ys[n][b]
RECURSIVE Dot(_, _, _, _)
Dot(w, ys, b, n) ==
    IF n = 0 THEN 0 ELSE w[n] * ys[n][b] + Dot(w, ys, b, n - 1)

\* value at x of the polynomial of degree < Len(xs) through (xs[i], ys[i]),
\* ys being chunks (componentwise)
Interpolate(xs, ys, x) ==
    LET w == LagrangeWeights(xs, Len(xs), x)
    IN [b \in 1..ChunkSize |-> Dot(w, ys, b, Len(xs)) % FieldModulus]

----------------------------------------------------------------------------
(* The core, from the design document *)

\* create_test_data of the tests, with a multiplier to vary the content
TestData(size, seed) == [i \in 1..size |-> (i * seed) % 256]

Zeros(n) == [i \in 1..n |-> 0]

CeilDiv(a, b) == (a + b - 1) \div b

\* 4.1 Padder: right-pad with zero bytes to a multiple of the chunk width
Pad(blob) == blob \o Zeros(CeilDiv(Len(blob), ChunkSize) * ChunkSize - Len(blob))

\* the consecutive ChunkSize-byte chunks of padded bytes
ChunksOf(padded) ==
    [i \in 1..(Len(padded) \div ChunkSize) |->
        SubSeq(padded, (i - 1) * ChunkSize + 1, i * ChunkSize)]

\* 4.2 Chunker: rows of columns/2 chunks; the last row may be short
Chunk(padded, columns) ==
    LET chunks == ChunksOf(padded)
        cpr == columns \div 2
        nrows == CeilDiv(Len(chunks), cpr)
        min(a, b) == IF a < b THEN a ELSE b
    IN [r \in 1..nrows |->
          SubSeq(chunks, (r - 1) * cpr + 1, min(r * cpr, Len(chunks)))]

\* a row logically zero-extended to width columns/2
ZeroExtend(row, columns) ==
    [i \in 1..(columns \div 2) |-> IF i <= Len(row) THEN row[i] ELSE ZeroChunk]

\* the points of the first columns/2 positions of the row domain
SystematicPoints(columns) ==
    [i \in 1..(columns \div 2) |-> DomainElement(columns, i - 1)]

\* 4.3 Row Encoder: the polynomial through the row's chunks at the first
\* columns/2 points of the domain, evaluated at all `columns` points
Extend(row, columns) ==
    LET xs == SystematicPoints(columns)
        ys == ZeroExtend(row, columns)
    IN [j \in 1..columns |-> Interpolate(xs, ys, DomainElement(columns, j - 1))]

\* 4.4 CommitRow: the ideal commitment to the row's pre-extension polynomial
CommitRow(row, columns) ==
    [domain |-> columns, evals |-> ZeroExtend(row, columns)]

\* the committed polynomial's value at x
PolyEval(commitment, x) ==
    Interpolate(SystematicPoints(commitment.domain), commitment.evals, x)

\* 4.4 ProveColumn: one aggregated opening proof for column columnIndex
\* (0-based) over all rows
ProveColumn(extendedRows, rowCommitments, columnIndex) ==
    [point |-> DomainElement(Len(extendedRows[1]), columnIndex),
     rows |-> Len(rowCommitments)]

\* DaEncoder::encode: Padder -> Chunker -> Row Encoder -> Commitment Engine
DaEncoder_encode(column_count, data) ==
    IF Len(data) = 0 THEN [ok |-> FALSE, err |-> "InvalidInput"]
    ELSE
    LET padded == Pad(data)
        chunked == Chunk(padded, column_count)
        extended == [r \in 1..Len(chunked) |-> Extend(chunked[r], column_count)]
        commitments ==
            [r \in 1..Len(chunked) |-> CommitRow(chunked[r], column_count)]
    IN [ok |-> TRUE,
        value |->
          [data |-> padded,
           chunked_data |-> chunked,
           extended_data |-> extended,
           row_commitments |-> commitments,
           combined_column_proofs |->
             [j \in 1..column_count |->
                ProveColumn(extended, commitments, j - 1)]]]

\* 4.5 EncodedData::to_da_share: column `index` of every extended row, its
\* proof, and the full ordered row commitments; None outside [0, columns)
to_da_share(encoded, index) ==
    IF index < 0 \/ index >= Len(encoded.extended_data[1])
    THEN [some |-> FALSE]
    ELSE [some |-> TRUE,
          share |->
            [share_idx |-> index,
             column |-> [r \in 1..Len(encoded.extended_data) |->
                            encoded.extended_data[r][index + 1]],
             combined_column_proof |-> encoded.combined_column_proofs[index + 1],
             rows_commitments |-> encoded.row_commitments]]

\* DaShare::into_share_and_commitments
into_share_and_commitments(share) ==
    [light_share |->
        [share_idx |-> share.share_idx,
         column |-> share.column,
         combined_column_proof |-> share.combined_column_proof],
     commitments |-> share.rows_commitments]

\* 4.6 DaVerifier::verify: the proof opens every commitment, at the point of
\* share_idx in a domain of size rows_domain_size, to the share's chunk
DaVerifier_verify(light_share, commitments, rows_domain_size) ==
    LET point == DomainElement(rows_domain_size, light_share.share_idx)
    IN /\ light_share.combined_column_proof.point = point
       /\ light_share.combined_column_proof.rows = Len(commitments)
       /\ Len(light_share.column) = Len(commitments)
       /\ \A r \in 1..Len(commitments) :
             PolyEval(commitments[r], point) = light_share.column[r]

\* shares ordered by share_idx (stable)
RECURSIVE SortByIdx(_)
SortByIdx(shares) ==
    IF shares = <<>> THEN <<>>
    ELSE LET m == CHOOSE i \in 1..Len(shares) :
                    \A j \in 1..Len(shares) :
                        \/ shares[i].share_idx < shares[j].share_idx
                        \/ shares[i].share_idx = shares[j].share_idx /\ i <= j
             rest == [k \in 1..(Len(shares) - 1) |->
                         IF k < m THEN shares[k] ELSE shares[k + 1]]
         IN <<shares[m]>> \o SortByIdx(rest)

RECURSIVE Flatten(_)
Flatten(ss) == IF ss = <<>> THEN <<>> ELSE Head(ss) \o Flatten(Tail(ss))

\* 4.7 reconstruct_without_missing_data, systematic-column path: the chunks
\* of the supplied columns, row-major in column order; empty when no share,
\* an empty share or shares of different row counts are supplied
reconstruct_without_missing_data(shares) ==
    IF \/ shares = <<>>
       \/ \E i \in 1..Len(shares) : Len(shares[i].column) = 0
       \/ \E i, j \in 1..Len(shares) : Len(shares[i].column) /= Len(shares[j].column)
    THEN <<>>
    ELSE LET sorted == SortByIdx(shares)
         IN Flatten([r \in 1..Len(sorted[1].column) |->
                Flatten([i \in 1..Len(sorted) |->
                    SubSeq(sorted[i].column[r], 1, ChunkSize)])])

----------------------------------------------------------------------------
(* Serialization of shares and commitments (SerializeOp / DeserializeOp).  *)
(* The byte layout is not fixed by the design document; the model uses     *)
(* little-endian fixed-width integers and length-prefixed sequences, a     *)
(* field element taking two bytes.                                         *)

\* the w bytes of n, least significant first
RECURSIVE ToLe(_, _)
ToLe(n, w) == IF w = 0 THEN <<>> ELSE <<n % 256>> \o ToLe(n \div 256, w - 1)

\* the number held by the w bytes of bs from position pos
RECURSIVE FromLe(_, _, _)
FromLe(bs, pos, w) ==
    IF w = 0 THEN 0 ELSE bs[pos] + 256 * FromLe(bs, pos + 1, w - 1)

\* widths of the encoded integers
IdxWidth == 2
LenWidth == 8
ElemWidth == 2
ChunkWidth == ChunkSize * ElemWidth

ChunkToBytes(chunk) == Flatten([b \in 1..ChunkSize |-> ToLe(chunk[b], ElemWidth)])

ChunksToBytes(chunks) ==
    ToLe(Len(chunks), LenWidth)
        \o Flatten([i \in 1..Len(chunks) |-> ChunkToBytes(chunks[i])])

CommitmentToBytes(commitment) ==
    ToLe(commitment.domain, LenWidth) \o ChunksToBytes(commitment.evals)

\* DaSharesCommitments::to_bytes
DaSharesCommitments_to_bytes(commitments) ==
    ToLe(Len(commitments), LenWidth)
        \o Flatten([i \in 1..Len(commitments) |-> CommitmentToBytes(commitments[i])])

\* DaShare::to_bytes
DaShare_to_bytes(share) ==
    ToLe(share.share_idx, IdxWidth)
        \o ChunksToBytes(share.column)
        \o ToLe(share.combined_column_proof.point, ElemWidth)
        \o ToLe(share.combined_column_proof.rows, LenWidth)
        \o DaSharesCommitments_to_bytes(share.rows_commitments)

\* Parsing works on positions: a position is 1-based, and 0 stands for an
\* input that is malformed before that point.

\* the integer of w bytes at pos, or -1 when the input ends before it or the
\* integer does not fit three bytes (it then exceeds every length of the input)
IntAt(bs, pos, w) ==
    IF pos < 1 \/ pos + w - 1 > Len(bs) THEN -1
    ELSE IF \E i \in 3..(w - 1) : bs[pos + i] /= 0 THEN -1
    ELSE FromLe(bs, pos, IF w < 3 THEN w ELSE 3)

\* the field element at pos, or -1
ElemAt(bs, pos) ==
    IF IntAt(bs, pos, ElemWidth) < FieldModulus THEN IntAt(bs, pos, ElemWidth)
    ELSE -1

\* the chunk at pos (its bytes are there)
ChunkAt(bs, pos) ==
    [b \in 1..ChunkSize |-> FromLe(bs, pos + (b - 1) * ElemWidth, ElemWidth)]

\* the length-prefixed sequence of chunks at pos (its bytes are there)
ChunksAt(bs, pos) ==
    [i \in 1..IntAt(bs, pos, LenWidth) |->
        ChunkAt(bs, pos + LenWidth + (i - 1) * ChunkWidth)]

\* the position after the length-prefixed sequence of chunks at pos, or 0
\* when the input ends before it or an element is no field element
ChunksEnd(bs, pos) ==
    IF IntAt(bs, pos, LenWidth) < 0 THEN 0
    ELSE IF pos + LenWidth + IntAt(bs, pos, LenWidth) * ChunkWidth - 1 > Len(bs)
    THEN 0
    ELSE IF \E i \in (pos + LenWidth)..
                     (pos + LenWidth + IntAt(bs, pos, LenWidth) * ChunkWidth - 1) :
               (i - pos - LenWidth) % ElemWidth = 0
                   /\ FromLe(bs, i, ElemWidth) >= FieldModulus
    THEN 0
    ELSE pos + LenWidth + IntAt(bs, pos, LenWidth) * ChunkWidth

\* the position after the commitment at pos, or 0
CommitmentEnd(bs, pos) ==
    IF IntAt(bs, pos, LenWidth) < 0 THEN 0 ELSE ChunksEnd(bs, pos + LenWidth)

\* the commitment at pos (its bytes are there)
CommitmentAt(bs, pos) ==
    [domain |-> IntAt(bs, pos, LenWidth), evals |-> ChunksAt(bs, pos + LenWidth)]

\* the position of the k-th of the commitments that start at pos (k = n + 1:
\* the position after n commitments), or 0
RECURSIVE CommitmentPos(_, _, _)
CommitmentPos(bs, pos, k) ==
    IF k = 1 THEN pos ELSE CommitmentEnd(bs, CommitmentPos(bs, pos, k - 1))

\* the position after the length-prefixed commitments at pos, or 0
CommitmentsEnd(bs, pos) ==
    IF IntAt(bs, pos, LenWidth) < 0 \/ IntAt(bs, pos, LenWidth) > Len(bs) THEN 0
    ELSE CommitmentPos(bs, pos + LenWidth, IntAt(bs, pos, LenWidth) + 1)

\* the length-prefixed commitments at pos (their bytes are there)
CommitmentsAt(bs, pos) ==
    [k \in 1..IntAt(bs, pos, LenWidth) |->
        CommitmentAt(bs, CommitmentPos(bs, pos + LenWidth, k))]

\* DaSharesCommitments::from_bytes: the whole input must be consumed
DaSharesCommitments_from_bytes(bs) ==
    IF CommitmentsEnd(bs, 1) = Len(bs) + 1
    THEN [ok |-> TRUE, value |-> CommitmentsAt(bs, 1)]
    ELSE [ok |-> FALSE, err |-> "Deserialize"]

\* the positions of the fields of a share: its column, its proof and its
\* commitments
SharePositions(bs) ==
    LET column == 1 + IdxWidth
        proof == ChunksEnd(bs, column)
    IN [column |-> column, proof |-> proof,
        commitments |-> proof + ElemWidth + LenWidth]

\* DaShare::from_bytes: the whole input must be consumed
DaShare_from_bytes(bs) ==
    LET at == SharePositions(bs)
    IN IF /\ IntAt(bs, 1, IdxWidth) >= 0
          /\ at.proof /= 0
          /\ ElemAt(bs, at.proof) >= 0
          /\ IntAt(bs, at.proof + ElemWidth, LenWidth) >= 0
          /\ CommitmentsEnd(bs, at.commitments) = Len(bs) + 1
       THEN [ok |-> TRUE,
             value |-> [share_idx |-> IntAt(bs, 1, IdxWidth),
                        column |-> ChunksAt(bs, at.column),
                        combined_column_proof |->
                            [point |-> ElemAt(bs, at.proof),
                             rows |-> IntAt(bs, at.proof + ElemWidth, LenWidth)],
                        rows_commitments |-> CommitmentsAt(bs, at.commitments)]]
       ELSE [ok |-> FALSE, err |-> "Deserialize"]

----------------------------------------------------------------------------
(* The FFI wrapper, from src/ffi-wrapper/src/lib.rs *)

\* what a call did: its result code, the value left in the caller's output
\* slot, the message given to set_error (Null when set_error was not called)
\* and the core functions it invoked
Outcome(result, out, error, invoked) ==
    [result |-> result, out |-> out, error |-> error, invoked |-> invoked]

Msg(text) == [tag |-> "msg", text |-> text]

\* a caller-owned byte buffer
Bytes(bs) == [tag |-> "bytes", bytes |-> bs]

\* a caller-owned array of share handles
Array(items) == [tag |-> "array", items |-> items]

\* nomos_da_encoder_new
nomos_da_encoder_new(column_count) ==
    [tag |-> "encoder", column_count |-> column_count]

\* nomos_da_verifier_new
nomos_da_verifier_new == [tag |-> "verifier"]

\* mutant: the slice is one byte short
from_raw_parts_short(data, data_len) == SubSeq(data.bytes, 1, data_len - 1)

\* std::slice::from_raw_parts(data, data_len)
from_raw_parts(data, data_len) == SubSeq(data.bytes, 1, data_len)

\* mutant: the check of an empty blob is missing
EncodeLenCheck_no_zero(data_len) ==
    IF data_len % ChunkSize /= 0
    THEN "Data length must be a multiple of chunk size"
    ELSE "ok"

\* mutant: the check of the chunk alignment is missing
EncodeLenCheck_no_align(data_len) ==
    IF data_len = 0 THEN "Data length must be greater than 0" ELSE "ok"

\* the length validation of nomos_da_encoder_encode
EncodeLenCheck(data_len) ==
    IF data_len = 0 THEN "Data length must be greater than 0"
    ELSE IF data_len % ChunkSize /= 0
         THEN "Data length must be a multiple of chunk size"
         ELSE "ok"

\* mutant: the blob is encoded for twice the columns of the encoder
nomos_da_encoder_encode_wide(enc, data, data_len, out_null, cur) ==
    IF enc = Null \/ data = Null \/ out_null
    THEN Outcome(ErrorInvalidInput, cur,
                 IF enc = Null THEN Msg("Encoder handle is null")
                 ELSE IF data = Null THEN Msg("Data pointer is null")
                 ELSE Msg("Output handle is null"), <<>>)
    ELSE IF EncodeLenCheck(data_len) /= "ok"
    THEN Outcome(ErrorInvalidInput, cur, Msg(EncodeLenCheck(data_len)), <<>>)
    ELSE LET r == DaEncoder_encode(2 * enc.column_count,
                                   from_raw_parts(data, data_len))
         IN IF r.ok
            THEN Outcome(Success, [tag |-> "encoded", data |-> r.value], Null,
                         <<"encode">>)
            ELSE Outcome(ErrorInternal, cur, Msg("Encoding error"), <<"encode">>)

\* mutant: the length of the blob is checked before the pointers
nomos_da_encoder_encode_len_first(enc, data, data_len, out_null, cur) ==
    IF EncodeLenCheck(data_len) /= "ok"
    THEN Outcome(ErrorInvalidInput, cur, Msg(EncodeLenCheck(data_len)), <<>>)
    ELSE IF enc = Null \/ data = Null \/ out_null
    THEN Outcome(ErrorInvalidInput, cur,
                 IF enc = Null THEN Msg("Encoder handle is null")
                 ELSE IF data = Null THEN Msg("Data pointer is null")
                 ELSE Msg("Output handle is null"), <<>>)
    ELSE LET r == DaEncoder_encode(enc.column_count, from_raw_parts(data, data_len))
         IN IF r.ok
            THEN Outcome(Success, [tag |-> "encoded", data |-> r.value], Null,
                         <<"encode">>)
            ELSE Outcome(ErrorInternal, cur, Msg("Encoding error"), <<"encode">>)

\* nomos_da_encoder_encode(encoder, data, data_len, out_handle); out_null
\* says that the out_handle pointer itself is null, cur is *out_handle
nomos_da_encoder_encode(enc, data, data_len, out_null, cur) ==
    IF enc = Null \/ data = Null \/ out_null
    THEN Outcome(ErrorInvalidInput, cur,
                 IF enc = Null THEN Msg("Encoder handle is null")
                 ELSE IF data = Null THEN Msg("Data pointer is null")
                 ELSE Msg("Output handle is null"), <<>>)
    ELSE IF EncodeLenCheck(data_len) /= "ok"
    THEN Outcome(ErrorInvalidInput, cur, Msg(EncodeLenCheck(data_len)), <<>>)
    ELSE LET r == DaEncoder_encode(enc.column_count, from_raw_parts(data, data_len))
         IN IF r.ok
            THEN Outcome(Success, [tag |-> "encoded", data |-> r.value], Null,
                         <<"encode">>)
            ELSE Outcome(ErrorInternal, cur, Msg("Encoding error"), <<"encode">>)

\* mutant: a capacity that is too small is left as it is
nomos_da_encoded_data_get_data_keep_len(handle, buf, cap_null, cap) ==
    IF handle = Null \/ buf = Null \/ cap_null
    THEN Outcome(ErrorInvalidInput, <<buf, cap>>, Null, <<>>)
    ELSE LET data == handle.data.data
             len == Len(data)
         IN IF cap < len
            THEN Outcome(ErrorInvalidInput, <<buf, cap>>, Null, <<>>)
            ELSE Outcome(Success,
                   <<Bytes([i \in 1..Len(buf.bytes) |->
                              IF i <= len THEN data[i] ELSE buf.bytes[i]]), len>>,
                   Null, <<>>)

\* nomos_da_encoded_data_get_data(handle, out_data, out_len): buf is the
\* caller's buffer (out_data), cap the capacity it states in *out_len;
\* out is the pair <<buffer after, *out_len after>>
nomos_da_encoded_data_get_data(handle, buf, cap_null, cap) ==
    IF handle = Null \/ buf = Null \/ cap_null
    THEN Outcome(ErrorInvalidInput, <<buf, cap>>, Null, <<>>)
    ELSE LET data == handle.data.data
             len == Len(data)
         IN IF cap < len
            THEN Outcome(ErrorInvalidInput, <<buf, len>>, Null, <<>>)
            ELSE Outcome(Success,
                   <<Bytes([i \in 1..Len(buf.bytes) |->
                              IF i <= len THEN data[i] ELSE buf.bytes[i]]), len>>,
                   Null, <<>>)

\* mutant: the count is taken from the row commitments
nomos_da_encoded_data_get_share_count_rows(handle) ==
    IF handle = Null THEN 0 ELSE Len(handle.data.row_commitments)

\* nomos_da_encoded_data_get_share_count
nomos_da_encoded_data_get_share_count(handle) ==
    IF handle = Null THEN 0 ELSE Len(handle.data.combined_column_proofs)

\* mutant: an index out of bounds nulls the caller's handle
nomos_da_encoded_data_get_share_nulls(handle, index, out_null, cur) ==
    IF handle = Null \/ out_null
    THEN Outcome(ErrorInvalidInput, cur,
                 IF handle = Null THEN Msg("EncodedData handle is null")
                 ELSE Msg("Output share handle is null"), <<>>)
    ELSE LET r == to_da_share(handle.data, index)
         IN IF r.some
            THEN Outcome(Success, [tag |-> "share", share |-> r.share], Null,
                         <<"to_da_share">>)
            ELSE Outcome(ErrorInvalidInput, Null,
                         Msg("Share index is out of bounds"), <<"to_da_share">>)

\* nomos_da_encoded_data_get_share(handle, index, out_share_handle)
(* A variant that hands out the first column whatever index is asked for. *)
nomos_da_encoded_data_get_share_first(handle, index, out_null, cur) ==
    IF handle = Null \/ out_null
    THEN Outcome(ErrorInvalidInput, cur,
                 IF handle = Null THEN Msg("EncodedData handle is null")
                 ELSE Msg("Output share handle is null"), <<>>)
    ELSE LET r == to_da_share(handle.data, 0)
         IN IF r.some /\ index >= 0 /\ index < Len(handle.data.extended_data[1])
            THEN Outcome(Success, [tag |-> "share", share |-> r.share], Null,
                         <<"to_da_share">>)
            ELSE Outcome(ErrorInvalidInput, cur,
                         Msg("Share index is out of bounds"), <<"to_da_share">>)

nomos_da_encoded_data_get_share(handle, index, out_null, cur) ==
    IF handle = Null \/ out_null
    THEN Outcome(ErrorInvalidInput, cur,
                 IF handle = Null THEN Msg("EncodedData handle is null")
                 ELSE Msg("Output share handle is null"), <<>>)
    ELSE LET r == to_da_share(handle.data, index)
         IN IF r.some
            THEN Outcome(Success, [tag |-> "share", share |-> r.share], Null,
                         <<"to_da_share">>)
            ELSE Outcome(ErrorInvalidInput, cur,
                         Msg("Share index is out of bounds"), <<"to_da_share">>)

\* the null checks of nomos_da_verifier_verify
VerifyNullCheck(verifier_, share_handle) ==
    IF verifier_ = Null THEN Msg("Verifier handle is null")
    ELSE IF share_handle = Null THEN Msg("Share handle is null")
    ELSE Null

\* mutant: the number of commitments is passed as the domain size
nomos_da_verifier_verify_rows(verifier_, share_handle, rows_domain_size) ==
    IF VerifyNullCheck(verifier_, share_handle) /= Null
    THEN Outcome(FALSE, Null, VerifyNullCheck(verifier_, share_handle), <<>>)
    ELSE IF rows_domain_size = 0
    THEN Outcome(FALSE, Null, Msg("Rows domain size must be greater than 0"), <<>>)
    ELSE LET sc == into_share_and_commitments(share_handle.share)
             is_valid == DaVerifier_verify(sc.light_share, sc.commitments,
                                           Len(sc.commitments))
         IN Outcome(is_valid, Null,
                    IF is_valid THEN Null ELSE Msg("Share verification failed"),
                    <<"verify">>)

\* mutant: the verifier's answer is reported but true is returned
nomos_da_verifier_verify_true(verifier_, share_handle, rows_domain_size) ==
    IF VerifyNullCheck(verifier_, share_handle) /= Null
    THEN Outcome(FALSE, Null, VerifyNullCheck(verifier_, share_handle), <<>>)
    ELSE IF rows_domain_size = 0
    THEN Outcome(FALSE, Null, Msg("Rows domain size must be greater than 0"), <<>>)
    ELSE LET sc == into_share_and_commitments(share_handle.share)
             is_valid == DaVerifier_verify(sc.light_share, sc.commitments,
                                           rows_domain_size)
         IN Outcome(TRUE, Null,
                    IF is_valid THEN Null ELSE Msg("Share verification failed"),
                    <<"verify">>)

\* mutant: the check of rows_domain_size is missing
nomos_da_verifier_verify_no_zero(verifier_, share_handle, rows_domain_size) ==
    IF VerifyNullCheck(verifier_, share_handle) /= Null
    THEN Outcome(FALSE, Null, VerifyNullCheck(verifier_, share_handle), <<>>)
    ELSE LET sc == into_share_and_commitments(share_handle.share)
             is_valid == DaVerifier_verify(sc.light_share, sc.commitments,
                                           rows_domain_size)
         IN Outcome(is_valid, Null,
                    IF is_valid THEN Null ELSE Msg("Share verification failed"),
                    <<"verify">>)

\* mutant: a rejected share leaves no message
nomos_da_verifier_verify_silent(verifier_, share_handle, rows_domain_size) ==
    IF VerifyNullCheck(verifier_, share_handle) /= Null
    THEN Outcome(FALSE, Null, VerifyNullCheck(verifier_, share_handle), <<>>)
    ELSE IF rows_domain_size = 0
    THEN Outcome(FALSE, Null, Msg("Rows domain size must be greater than 0"), <<>>)
    ELSE LET sc == into_share_and_commitments(share_handle.share)
             is_valid == DaVerifier_verify(sc.light_share, sc.commitments,
                                           rows_domain_size)
         IN Outcome(is_valid, Null, Null, <<"verify">>)

\* nomos_da_verifier_verify(verifier, share_handle, rows_domain_size)
nomos_da_verifier_verify(verifier_, share_handle, rows_domain_size) ==
    IF VerifyNullCheck(verifier_, share_handle) /= Null
    THEN Outcome(FALSE, Null, VerifyNullCheck(verifier_, share_handle), <<>>)
    ELSE IF rows_domain_size = 0
    THEN Outcome(FALSE, Null, Msg("Rows domain size must be greater than 0"), <<>>)
    ELSE LET sc == into_share_and_commitments(share_handle.share)
             is_valid == DaVerifier_verify(sc.light_share, sc.commitments,
                                           rows_domain_size)
         IN Outcome(is_valid, Null,
                    IF is_valid THEN Null ELSE Msg("Share verification failed"),
                    <<"verify">>)

\* mutant: the check of share_count == 0 is missing
ReconstructArgCheck_no_zero(shares, share_count, out_data_null, out_len_null) ==
    IF shares = Null THEN Msg("Shares array pointer is null")
    ELSE IF out_data_null THEN Msg("Output data pointer is null")
    ELSE IF out_len_null THEN Msg("Output length pointer is null")
    ELSE IF \E i \in 1..share_count : shares.items[i] = Null
         THEN Msg("Share handle is null")
         ELSE Null

\* the argument validation of nomos_da_reconstruct: the message of the first
\* check that fails, Null when all pass
ReconstructArgCheck(shares, share_count, out_data_null, out_len_null) ==
    IF shares = Null THEN Msg("Shares array pointer is null")
    ELSE IF out_data_null THEN Msg("Output data pointer is null")
    ELSE IF out_len_null THEN Msg("Output length pointer is null")
    ELSE IF share_count = 0 THEN Msg("Share count must be greater than 0")
    ELSE IF \E i \in 1..share_count : shares.items[i] = Null
         THEN Msg("Share handle is null")
         ELSE Null

\* mutant: an empty reconstruction is handed out as a success
nomos_da_reconstruct_empty(shares, share_count, out_data_null, out_len_null, cur) ==
    IF ReconstructArgCheck(shares, share_count, out_data_null, out_len_null) /= Null
    THEN Outcome(ErrorInvalidInput, cur,
                 ReconstructArgCheck(shares, share_count, out_data_null,
                                     out_len_null), <<>>)
    ELSE LET da_shares == [i \in 1..share_count |-> shares.items[i].share]
             reconstructed_data == reconstruct_without_missing_data(da_shares)
         IN Outcome(Success,
                    <<Bytes(reconstructed_data), Len(reconstructed_data)>>,
                    Null, <<"reconstruct">>)

\* mutant: the last share of the array is left out
nomos_da_reconstruct_short(shares, share_count, out_data_null, out_len_null, cur) ==
    IF ReconstructArgCheck(shares, share_count, out_data_null, out_len_null) /= Null
    THEN Outcome(ErrorInvalidInput, cur,
                 ReconstructArgCheck(shares, share_count, out_data_null,
                                     out_len_null), <<>>)
    ELSE LET da_shares == [i \in 1..(share_count - 1) |-> shares.items[i].share]
             reconstructed_data == reconstruct_without_missing_data(da_shares)
         IN IF reconstructed_data = <<>>
            THEN Outcome(ErrorInternal, cur, Msg("Reconstructed data is empty"),
                         <<"reconstruct">>)
            ELSE Outcome(Success,
                         <<Bytes(reconstructed_data), Len(reconstructed_data)>>,
                         Null, <<"reconstruct">>)

\* mutant: *out_len is set to the share count
nomos_da_reconstruct_len(shares, share_count, out_data_null, out_len_null, cur) ==
    IF ReconstructArgCheck(shares, share_count, out_data_null, out_len_null) /= Null
    THEN Outcome(ErrorInvalidInput, cur,
                 ReconstructArgCheck(shares, share_count, out_data_null,
                                     out_len_null), <<>>)
    ELSE LET da_shares == [i \in 1..share_count |-> shares.items[i].share]
             reconstructed_data == reconstruct_without_missing_data(da_shares)
         IN IF reconstructed_data = <<>>
            THEN Outcome(ErrorInternal, cur, Msg("Reconstructed data is empty"),
                         <<"reconstruct">>)
            ELSE Outcome(Success, <<Bytes(reconstructed_data), share_count>>,
                         Null, <<"reconstruct">>)

\* nomos_da_reconstruct(shares, share_count, out_data, out_len): shares is the
\* caller's array (Null for a null array pointer), cur is <<*out_data, *out_len>>
nomos_da_reconstruct(shares, share_count, out_data_null, out_len_null, cur) ==
    IF ReconstructArgCheck(shares, share_count, out_data_null, out_len_null) /= Null
    THEN Outcome(ErrorInvalidInput, cur,
                 ReconstructArgCheck(shares, share_count, out_data_null,
                                     out_len_null), <<>>)
    ELSE LET da_shares == [i \in 1..share_count |-> shares.items[i].share]
             reconstructed_data == reconstruct_without_missing_data(da_shares)
         IN IF reconstructed_data = <<>>
            THEN Outcome(ErrorInternal, cur, Msg("Reconstructed data is empty"),
                         <<"reconstruct">>)
            ELSE Outcome(Success,
                         <<Bytes(reconstructed_data), Len(reconstructed_data)>>,
                         Null, <<"reconstruct">>)

\* Box::into_raw(Box::new(box)): the box joins the allocated boxes
Box_into_raw(h, box) == h (+) SetToBag({box})

\* drop(Box::from_raw(handle)): one box with this content is released
Box_from_raw(h, handle) == h (-) SetToBag({handle})

\* nomos_da_encoder_free
nomos_da_encoder_free(handle, h) ==
    IF handle = Null THEN h ELSE Box_from_raw(h, handle)

\* mutant: the shares extracted from the encoding borrow from it, so they are
\* released with it
nomos_da_encoded_data_free_borrowed(handle, h) ==
    IF handle = Null THEN h
    ELSE LET kept == {b \in BagToSet(Box_from_raw(h, handle)) :
                         ~(/\ b.tag = "share"
                           /\ b.share.rows_commitments = handle.data.row_commitments)}
         IN [b \in kept |-> Box_from_raw(h, handle)[b]]

\* nomos_da_encoded_data_free
nomos_da_encoded_data_free(handle, h) ==
    IF handle = Null THEN h ELSE Box_from_raw(h, handle)

\* nomos_da_verifier_free
nomos_da_verifier_free(handle, h) ==
    IF handle = Null THEN h ELSE Box_from_raw(h, handle)

\* nomos_da_share_free
nomos_da_share_free(handle, h) ==
    IF handle = Null THEN h ELSE Box_from_raw(h, handle)

\* nomos_da_commitments_free
nomos_da_commitments_free(handle, h) ==
    IF handle = Null THEN h ELSE Box_from_raw(h, handle)

\* nomos_da_share_free_serialized(buffer, len)
nomos_da_share_free_serialized(buf, len, h) ==
    IF buf /= Null /\ len > 0 THEN Box_from_raw(h, buf) ELSE h

\* mutant: the index of the null path is returned for every share
nomos_da_share_get_index_zero(share_handle) ==
    IF share_handle = Null
    THEN Outcome(0, Null, Msg("Share handle is null"), <<>>)
    ELSE Outcome(0, Null, Null, <<>>)

\* nomos_da_share_get_index(share_handle) -> u16
nomos_da_share_get_index(share_handle) ==
    IF share_handle = Null
    THEN Outcome(0, Null, Msg("Share handle is null"), <<>>)
    ELSE Outcome(share_handle.share.share_idx % 65536, Null, Null, <<>>)

\* mutant: only the commitment of the first row is handed out
nomos_da_share_get_commitments_first(share_handle, out_null, cur) ==
    IF share_handle = Null \/ out_null
    THEN Outcome(ErrorInvalidInput, cur,
                 IF share_handle = Null THEN Msg("Share handle is null")
                 ELSE Msg("Output commitments handle pointer is null"), <<>>)
    ELSE LET sc == into_share_and_commitments(share_handle.share)
         IN Outcome(Success,
                    [tag |-> "commitments",
                     commitments |-> SubSeq(sc.commitments, 1, 1)],
                    Null, <<>>)

\* nomos_da_share_get_commitments(share_handle, out_commitments_handle)
nomos_da_share_get_commitments(share_handle, out_null, cur) ==
    IF share_handle = Null \/ out_null
    THEN Outcome(ErrorInvalidInput, cur,
                 IF share_handle = Null THEN Msg("Share handle is null")
                 ELSE Msg("Output commitments handle pointer is null"), <<>>)
    ELSE LET sc == into_share_and_commitments(share_handle.share)
         IN Outcome(Success,
                    [tag |-> "commitments", commitments |-> sc.commitments],
                    Null, <<>>)

\* a serialized buffer as the caller holds it: *out_buffer and *out_len
Buffer(bs, len) == [tag |-> "buffer", bytes |-> bs, len |-> len]

\* the null checks of the serialize functions
SerializeNullCheck(handle, what, out_buffer_null, out_len_null) ==
    IF handle = Null THEN Msg(what)
    ELSE IF out_buffer_null THEN Msg("Output buffer pointer is null")
    ELSE IF out_len_null THEN Msg("Output length pointer is null")
    ELSE Null

\* mutant: *out_len is one less than the number of bytes
nomos_da_share_serialize_short(share_handle, out_buffer_null, out_len_null, cur) ==
    LET check == SerializeNullCheck(share_handle, "Share handle is null",
                                    out_buffer_null, out_len_null)
    IN IF check /= Null THEN Outcome(ErrorInvalidInput, cur, check, <<>>)
       ELSE LET bytes == DaShare_to_bytes(share_handle.share)
            IN Outcome(Success, Buffer(bytes, Len(bytes) - 1), Null, <<"to_bytes">>)

\* nomos_da_share_serialize(share_handle, out_buffer, out_len); to_bytes has
\* no failure in the model
nomos_da_share_serialize(share_handle, out_buffer_null, out_len_null, cur) ==
    LET check == SerializeNullCheck(share_handle, "Share handle is null",
                                    out_buffer_null, out_len_null)
    IN IF check /= Null THEN Outcome(ErrorInvalidInput, cur, check, <<>>)
       ELSE LET bytes == DaShare_to_bytes(share_handle.share)
            IN Outcome(Success, Buffer(bytes, Len(bytes)), Null, <<"to_bytes">>)

\* nomos_da_commitments_serialize(commitments_handle, out_buffer, out_len)
nomos_da_commitments_serialize(handle, out_buffer_null, out_len_null, cur) ==
    LET check == SerializeNullCheck(handle, "Commitments handle is null",
                                    out_buffer_null, out_len_null)
    IN IF check /= Null THEN Outcome(ErrorInvalidInput, cur, check, <<>>)
       ELSE LET bytes == DaSharesCommitments_to_bytes(handle.commitments)
            IN Outcome(Success, Buffer(bytes, Len(bytes)), Null, <<"to_bytes">>)

\* the argument checks of the deserialize functions
DeserializeArgCheck(data, data_len, out_null, what) ==
    IF data = Null THEN Msg("Data pointer is null")
    ELSE IF out_null THEN Msg(what)
    ELSE IF data_len = 0 THEN Msg("Data length must be greater than 0")
    ELSE Null

\* nomos_da_share_deserialize(data, data_len, out_share_handle)
nomos_da_share_deserialize(data, data_len, out_null, cur) ==
    LET check == DeserializeArgCheck(data, data_len, out_null,
                                     "Output share handle pointer is null")
    IN IF check /= Null THEN Outcome(ErrorInvalidInput, cur, check, <<>>)
       ELSE LET r == DaShare_from_bytes(from_raw_parts(data, data_len))
            IN IF r.ok
               THEN Outcome(Success, [tag |-> "share", share |-> r.value], Null,
                            <<"from_bytes">>)
               ELSE Outcome(ErrorInvalidInput, cur,
                            Msg("Share deserialization error"), <<"from_bytes">>)

\* nomos_da_commitments_deserialize(data, data_len, out_commitments_handle)
nomos_da_commitments_deserialize(data, data_len, out_null, cur) ==
    LET check == DeserializeArgCheck(data, data_len, out_null,
                                     "Output commitments handle pointer is null")
    IN IF check /= Null THEN Outcome(ErrorInvalidInput, cur, check, <<>>)
       ELSE LET r == DaSharesCommitments_from_bytes(from_raw_parts(data, data_len))
            IN IF r.ok
               THEN Outcome(Success,
                            [tag |-> "commitments", commitments |-> r.value],
                            Null, <<"from_bytes">>)
               ELSE Outcome(ErrorInvalidInput, cur,
                            Msg("Commitments deserialization error"),
                            <<"from_bytes">>)

\* LAST_ERROR after a call: set_error(error) when the call reported one
set_error(cur, error) == IF error = Null THEN cur ELSE error

----------------------------------------------------------------------------
(* The caller: inputs and the calls it makes *)

SetMax(S) == CHOOSE m \in S : \A x \in S : x <= m

\* data lengths the caller encodes: none, whole chunks, and the lengths of
\* test_encode_not_multiple_of_chunk_size
AlignedLens == {k * ChunkSize : k \in 1..MaxChunks}
UnalignedLens == {1, ChunkSize - 1, ChunkSize + 1, 2 * ChunkSize - 1}
DataLens == {0} \cup AlignedLens \cup UnalignedLens

\* share indices the caller asks for: every column and one past the widest
Indices == 0..SetMax(ColumnCounts)

\* capacities the caller gives to get_data
Capacities == {1} \cup AlignedLens

\* the flips the caller may apply to a copy of a share before verifying it:
\* none, or <<row, byte position, delta>>
FlipPositions == {1, ChunkSize}
Flips(handle) ==
    {<<>>} \cup
    (IF handle = Null THEN {}
     ELSE (1..Len(handle.share.column)) \X FlipPositions \X FlipDeltas)

\* a ShareHandle to a copy of the share with one byte of one chunk changed
FlipByte(handle, flip) ==
    IF flip = <<>> THEN handle
    ELSE [handle EXCEPT !.share.column[flip[1]][flip[2]] = (@ + flip[3]) % 256]

\* the record of a call; `after` is the output slot after the call when that
\* slot is not one of the caller's variables
Call(op, args, o, before, after) ==
    [op |-> op, args |-> args, result |-> o.result, invoked |-> o.invoked,
     before |-> before, after |-> after]

Init ==
    /\ encoder \in {nomos_da_encoder_new(c) : c \in ColumnCounts}
    /\ verifier = nomos_da_verifier_new
    /\ original_data = Null
    /\ out_handle = Null
    /\ share_handles = [i \in 1..MaxShares |-> Null]
    /\ last_error = Null
    /\ peer_error = Null
    /\ commitments_handle = Null
    /\ buffer = Null
    /\ heap = EmptyBag
    /\ ret = [op |-> "init", args |-> <<>>, result |-> Success, invoked |-> <<>>,
              before |-> Null, after |-> Null]

\* the caller encodes a blob into its handle slot; it encodes a well-formed
\* blob only into an empty slot
Encode ==
    \E len \in DataLens, seed \in DataSeeds :
        /\ out_handle = Null \/ len \notin AlignedLens
        /\ LET data == Bytes(TestData(len, seed))
               o == nomos_da_encoder_encode(encoder, data, len, FALSE, out_handle)
           IN /\ out_handle' = o.out
              /\ original_data' = IF o.result = Success THEN data ELSE original_data
              /\ last_error' = set_error(last_error, o.error)
              /\ ret' = Call("encode", [data_len |-> len, seed |-> seed], o,
                             out_handle, Null)
        /\ UNCHANGED <<peer_error, owned, encoder, verifier, share_handles>>

GetShareCount ==
    /\ ret' = Call("get_share_count", <<>>,
                   Outcome(nomos_da_encoded_data_get_share_count(out_handle),
                           Null, Null, <<>>), Null, Null)
    /\ UNCHANGED <<peer_error, owned, encoder, verifier, original_data, out_handle, share_handles,
                   last_error>>

\* the caller reads the stored data into a fresh zeroed buffer of cap bytes
GetData ==
    \E cap \in Capacities :
        LET buf == Bytes(Zeros(cap))
            o == nomos_da_encoded_data_get_data(out_handle, buf, FALSE, cap)
        IN /\ last_error' = set_error(last_error, o.error)
           /\ ret' = Call("get_data", [cap |-> cap], o, <<buf, cap>>, o.out)
           /\ UNCHANGED <<peer_error, owned, encoder, verifier, original_data, out_handle,
                          share_handles>>

\* the caller extracts share `index` into slot `slot` of its array
GetShare ==
    \E index \in Indices, slot \in 1..MaxShares :
        LET o == nomos_da_encoded_data_get_share(out_handle, index, FALSE,
                                                 share_handles[slot])
        IN /\ share_handles' = [share_handles EXCEPT ![slot] = o.out]
           /\ last_error' = set_error(last_error, o.error)
           /\ ret' = Call("get_share", [index |-> index, slot |-> slot], o,
                          share_handles[slot], Null)
           /\ UNCHANGED <<peer_error, owned, encoder, verifier, original_data, out_handle>>

\* the caller verifies the share of a slot, or a copy of it with one byte
\* of one chunk flipped
Verify ==
    \E slot \in 1..MaxShares, rows_domain_size \in DomainSizes :
        \E flip \in Flips(share_handles[slot]) :
            LET o == nomos_da_verifier_verify(verifier,
                         FlipByte(share_handles[slot], flip), rows_domain_size)
            IN /\ last_error' = set_error(last_error, o.error)
               /\ ret' = Call("verify",
                              [slot |-> slot, rows_domain_size |-> rows_domain_size,
                               flip |-> flip], o, Null, Null)
               /\ UNCHANGED <<peer_error, owned, encoder, verifier, original_data, out_handle,
                              share_handles>>

\* the caller reconstructs from the first share_count entries of its array,
\* into null-initialised outputs
Reconstruct ==
    \E share_count \in 0..MaxShares :
        LET o == nomos_da_reconstruct(Array(share_handles), share_count,
                                      FALSE, FALSE, <<Null, 0>>)
        IN /\ last_error' = set_error(last_error, o.error)
           /\ ret' = Call("reconstruct", [share_count |-> share_count], o,
                          <<Null, 0>>, o.out)
           /\ UNCHANGED <<peer_error, owned, encoder, verifier, original_data, out_handle,
                          share_handles>>

\* nomos_da_share_get_index of a slot
ShareGetIndex ==
    \E slot \in 1..MaxShares :
        LET o == nomos_da_share_get_index(share_handles[slot])
        IN /\ last_error' = set_error(last_error, o.error)
           /\ ret' = Call("share_get_index", [slot |-> slot], o, Null, Null)
           /\ UNCHANGED <<peer_error, encoder, verifier, original_data, out_handle,
                          share_handles, owned>>

\* nomos_da_get_last_error: take_error
GetLastError ==
    /\ ret' = Call("get_last_error", <<>>, Outcome(last_error, Null, Null, <<>>),
                   Null, Null)
    /\ last_error' = Null
    /\ UNCHANGED <<peer_error, owned, encoder, verifier, original_data, out_handle, share_handles>>

\* the caller reads the error channel after a call that failed, before its
\* next call
Next ==
    \/ last_error = Null /\ Encode
    \/ last_error = Null /\ GetShareCount
    \/ last_error = Null /\ GetData
    \/ last_error = Null /\ GetShare
    \/ last_error = Null /\ Verify
    \/ last_error = Null /\ Reconstruct
    \/ last_error = Null /\ ShareGetIndex
    \/ GetLastError

Spec == Init /\ [][Next]_vars

----------------------------------------------------------------------------
(* Callers that free what they own.  They hold one encoding at a time, put *)
(* a share only into an empty slot and null a pointer they have freed, so  *)
(* the allocated boxes are the ones their variables point to; they free    *)
(* the encoder after the encoding.                                         *)

\* largest number of chunks of the blobs of this caller
OwnedChunks == 3
\* data lengths this caller encodes: one chunk and OwnedChunks chunks
OwnedLens == {ChunkSize, OwnedChunks * ChunkSize}
\* the columns this caller extracts: the first (systematic) and the last
\* (redundancy) one, and one past the last
OwnedIndices(count) == {0, count - 1, count}
\* the flip this caller applies to a copy of a share: first byte of row 1
OwnedFlip == <<1, 1, 1>>
\* what the caller passes to verify with a share cut from `columns` columns:
\* <<verifier is null, rows_domain_size, flip>>
OwnedVerifyArgs(columns) ==
    {<<FALSE, columns, <<>>>>, <<FALSE, columns, OwnedFlip>>,
     <<FALSE, 0, <<>>>>, <<TRUE, columns, <<>>>>}

\* the column count of the encoding a share was cut from
ShareColumns(handle) == handle.share.rows_commitments[1].domain

InitOwned ==
    /\ encoder \in {nomos_da_encoder_new(c) : c \in ColumnCounts}
    /\ verifier = nomos_da_verifier_new
    /\ original_data = Null
    /\ out_handle = Null
    /\ share_handles = [i \in 1..MaxShares |-> Null]
    /\ last_error = Null
    /\ peer_error = Null
    /\ commitments_handle = Null
    /\ buffer = Null
    /\ heap = Box_into_raw(Box_into_raw(EmptyBag, encoder), verifier)
    /\ ret = [op |-> "init", args |-> <<>>, result |-> Success, invoked |-> <<>>,
              before |-> Null, after |-> Null]

\* nomos_da_encoder_encode into the empty handle slot
EncoderEncode ==
    \E len \in OwnedLens :
        /\ out_handle = Null
        /\ LET data == Bytes(TestData(len, 1))
               o == nomos_da_encoder_encode(encoder, data, len, FALSE, out_handle)
           IN /\ out_handle' = o.out
              /\ original_data' = IF o.result = Success THEN data ELSE original_data
              /\ heap' = IF o.result = Success THEN Box_into_raw(heap, o.out)
                         ELSE heap
              /\ last_error' = set_error(last_error, o.error)
              /\ ret' = Call("encode", [data_len |-> len, seed |-> 1], o,
                             out_handle, Null)
        /\ UNCHANGED <<peer_error, encoder, verifier, share_handles, commitments_handle, buffer>>

\* nomos_da_encoded_data_get_share into an empty slot
EncodedDataGetShare ==
    \E slot \in 1..MaxShares :
        \E index \in OwnedIndices(nomos_da_encoded_data_get_share_count(out_handle)) :
            /\ share_handles[slot] = Null
            /\ index >= 0
            /\ LET o == nomos_da_encoded_data_get_share(out_handle, index, FALSE,
                                                        share_handles[slot])
               IN /\ share_handles' = [share_handles EXCEPT ![slot] = o.out]
                  /\ heap' = IF o.result = Success THEN Box_into_raw(heap, o.out)
                             ELSE heap
                  /\ last_error' = set_error(last_error, o.error)
                  /\ ret' = Call("get_share", [index |-> index, slot |-> slot], o,
                                 share_handles[slot], Null)
            /\ UNCHANGED <<peer_error, encoder, verifier, original_data, out_handle,
                           commitments_handle, buffer>>

\* nomos_da_share_get_commitments of a slot into the empty commitments slot
ShareGetCommitments ==
    \E slot \in 1..MaxShares :
        /\ commitments_handle = Null
        /\ LET o == nomos_da_share_get_commitments(share_handles[slot], FALSE,
                                                   commitments_handle)
           IN /\ commitments_handle' = o.out
              /\ heap' = IF o.result = Success THEN Box_into_raw(heap, o.out)
                         ELSE heap
              /\ last_error' = set_error(last_error, o.error)
              /\ ret' = Call("share_get_commitments", [slot |-> slot], o,
                             commitments_handle, Null)
        /\ UNCHANGED <<peer_error, encoder, verifier, original_data, out_handle,
                       share_handles, buffer>>

\* nomos_da_verifier_verify of the share of a slot, of a copy of it with one
\* byte flipped, with a null verifier, or of an empty slot
VerifierVerify ==
    \E slot \in 1..MaxShares :
        \E a \in (IF share_handles[slot] = Null THEN {<<FALSE, 1, <<>>>>}
                  ELSE OwnedVerifyArgs(ShareColumns(share_handles[slot]))) :
            LET o == nomos_da_verifier_verify(IF a[1] THEN Null ELSE verifier,
                         FlipByte(share_handles[slot], a[3]), a[2])
            IN /\ last_error' = set_error(last_error, o.error)
               /\ ret' = Call("verify",
                              [slot |-> slot, rows_domain_size |-> a[2],
                               flip |-> a[3], verifier_null |-> a[1]],
                              o, Null, Null)
               /\ UNCHANGED <<peer_error, encoder, verifier, original_data, out_handle,
                              share_handles, owned>>

\* nomos_da_reconstruct from the first share_count slots
DaReconstruct ==
    \E share_count \in 0..MaxShares :
        LET o == nomos_da_reconstruct(Array(share_handles), share_count,
                                      FALSE, FALSE, <<Null, 0>>)
        IN /\ last_error' = set_error(last_error, o.error)
           /\ ret' = Call("reconstruct", [share_count |-> share_count], o,
                          <<Null, 0>>, o.out)
           /\ UNCHANGED <<peer_error, encoder, verifier, original_data, out_handle,
                          share_handles, owned>>

\* the record of a free
Freed(op, args) ==
    [op |-> op, args |-> args, result |-> Success, invoked |-> <<>>,
     before |-> Null, after |-> Null]

\* nomos_da_encoded_data_free; the caller nulls its pointer
EncodedDataFree ==
    /\ out_handle /= Null
    /\ heap' = nomos_da_encoded_data_free(out_handle, heap)
    /\ out_handle' = Null
    /\ ret' = Freed("encoded_data_free", <<>>)
    /\ UNCHANGED <<peer_error, encoder, verifier, original_data, share_handles, last_error,
                   commitments_handle, buffer>>

\* nomos_da_encoder_free, after the encoding was freed
EncoderFree ==
    /\ encoder /= Null
    /\ out_handle = Null
    /\ original_data /= Null
    /\ heap' = nomos_da_encoder_free(encoder, heap)
    /\ encoder' = Null
    /\ ret' = Freed("encoder_free", <<>>)
    /\ UNCHANGED <<peer_error, verifier, original_data, out_handle, share_handles, last_error,
                   commitments_handle, buffer>>

\* nomos_da_share_free of a slot
ShareFree ==
    \E slot \in 1..MaxShares :
        /\ share_handles[slot] /= Null
        /\ heap' = nomos_da_share_free(share_handles[slot], heap)
        /\ share_handles' = [share_handles EXCEPT ![slot] = Null]
        /\ ret' = Freed("share_free", [slot |-> slot])
        /\ UNCHANGED <<peer_error, encoder, verifier, original_data, out_handle, last_error,
                       commitments_handle, buffer>>

\* nomos_da_commitments_free
CommitmentsFree ==
    /\ commitments_handle /= Null
    /\ heap' = nomos_da_commitments_free(commitments_handle, heap)
    /\ commitments_handle' = Null
    /\ ret' = Freed("commitments_free", <<>>)
    /\ UNCHANGED <<peer_error, encoder, verifier, original_data, out_handle, share_handles,
                   last_error, buffer>>

\* this caller encodes one blob
NextOwned ==
    \/ last_error = Null /\ original_data = Null /\ EncoderEncode
    \/ last_error = Null /\ EncodedDataGetShare
    \/ last_error = Null /\ ShareGetIndex
    \/ last_error = Null /\ ShareGetCommitments
    \/ last_error = Null /\ VerifierVerify
    \/ last_error = Null /\ DaReconstruct
    \/ last_error = Null /\ EncodedDataFree
    \/ last_error = Null /\ EncoderFree
    \/ last_error = Null /\ ShareFree
    \/ last_error = Null /\ CommitmentsFree
    \/ GetLastError

SpecOwned == InitOwned /\ [][NextOwned]_vars

\* this caller encodes one blob after the other and keeps shares of earlier
\* encodings
NextMixed ==
    \/ last_error = Null /\ EncoderEncode
    \/ last_error = Null /\ EncodedDataGetShare
    \/ last_error = Null /\ DaReconstruct
    \/ last_error = Null /\ EncodedDataFree
    \/ last_error = Null /\ ShareFree
    \/ GetLastError

SpecMixed == InitOwned /\ [][NextMixed]_vars

----------------------------------------------------------------------------
(* A caller that sends shares and commitments through their serialization. *)

\* nomos_da_share_serialize of a slot into the empty buffer
ShareSerialize ==
    \E slot \in 1..MaxShares :
        /\ buffer = Null
        /\ LET o == nomos_da_share_serialize(share_handles[slot], FALSE, FALSE,
                                             buffer)
           IN /\ buffer' = o.out
              /\ heap' = IF o.result = Success THEN Box_into_raw(heap, o.out)
                         ELSE heap
              /\ last_error' = set_error(last_error, o.error)
              /\ ret' = Call("share_serialize", [slot |-> slot], o, buffer, Null)
        /\ UNCHANGED <<peer_error, encoder, verifier, original_data, out_handle,
                       share_handles, commitments_handle>>

\* nomos_da_commitments_serialize into the empty buffer
CommitmentsSerialize ==
    /\ buffer = Null
    /\ LET o == nomos_da_commitments_serialize(commitments_handle, FALSE, FALSE,
                                               buffer)
       IN /\ buffer' = o.out
          /\ heap' = IF o.result = Success THEN Box_into_raw(heap, o.out) ELSE heap
          /\ last_error' = set_error(last_error, o.error)
          /\ ret' = Call("commitments_serialize", <<>>, o, buffer, Null)
    /\ UNCHANGED <<peer_error, encoder, verifier, original_data, out_handle, share_handles,
                   commitments_handle>>

\* the data pointer and length the caller passes for its buffer
BufferLen == IF buffer = Null THEN 0 ELSE buffer.len

\* nomos_da_share_deserialize of the buffer into an empty slot
ShareDeserialize ==
    \E slot \in 1..MaxShares :
        /\ share_handles[slot] = Null
        /\ LET o == nomos_da_share_deserialize(buffer, BufferLen, FALSE,
                                               share_handles[slot])
           IN /\ share_handles' = [share_handles EXCEPT ![slot] = o.out]
              /\ heap' = IF o.result = Success THEN Box_into_raw(heap, o.out)
                         ELSE heap
              /\ last_error' = set_error(last_error, o.error)
              /\ ret' = Call("share_deserialize", [slot |-> slot], o,
                             share_handles[slot], Null)
        /\ UNCHANGED <<peer_error, encoder, verifier, original_data, out_handle,
                       commitments_handle, buffer>>

\* nomos_da_commitments_deserialize of the buffer into the empty
\* commitments slot
CommitmentsDeserialize ==
    /\ commitments_handle = Null
    /\ LET o == nomos_da_commitments_deserialize(buffer, BufferLen, FALSE,
                                                 commitments_handle)
       IN /\ commitments_handle' = o.out
          /\ heap' = IF o.result = Success THEN Box_into_raw(heap, o.out) ELSE heap
          /\ last_error' = set_error(last_error, o.error)
          /\ ret' = Call("commitments_deserialize", <<>>, o, commitments_handle,
                         Null)
    /\ UNCHANGED <<peer_error, encoder, verifier, original_data, out_handle, share_handles,
                   buffer>>

\* nomos_da_share_free_serialized of the buffer
ShareFreeSerialized ==
    /\ buffer /= Null
    /\ heap' = nomos_da_share_free_serialized(buffer, buffer.len, heap)
    /\ buffer' = Null
    /\ ret' = Freed("share_free_serialized", <<>>)
    /\ UNCHANGED <<peer_error, encoder, verifier, original_data, out_handle, share_handles,
                   last_error, commitments_handle>>

\* this caller encodes one blob
NextCodec ==
    \/ last_error = Null /\ original_data = Null /\ EncoderEncode
    \/ last_error = Null /\ EncodedDataGetShare
    \/ last_error = Null /\ ShareGetCommitments
    \/ last_error = Null /\ ShareSerialize
    \/ last_error = Null /\ CommitmentsSerialize
    \/ last_error = Null /\ ShareDeserialize
    \/ last_error = Null /\ CommitmentsDeserialize
    \/ last_error = Null /\ ShareFreeSerialized
    \/ last_error = Null /\ ShareFree
    \/ last_error = Null /\ CommitmentsFree
    \/ GetLastError

SpecCodec == InitOwned /\ [][NextCodec]_vars

----------------------------------------------------------------------------
(* The caller of test_verifier_verify_different_column_counts: it encodes   *)
(* a blob for 2, 4 or 8 columns, extracts the share of every column and     *)
(* verifies it.                                                             *)

\* the column counts of the test
TestColumnCounts == {2, 4, 8}

InitTest ==
    /\ encoder \in {nomos_da_encoder_new(c) : c \in TestColumnCounts}
    /\ verifier = nomos_da_verifier_new
    /\ original_data = Null
    /\ out_handle = Null
    /\ share_handles = [i \in 1..MaxShares |-> Null]
    /\ last_error = Null
    /\ peer_error = Null
    /\ commitments_handle = Null
    /\ buffer = Null
    /\ heap = Box_into_raw(Box_into_raw(EmptyBag, encoder), verifier)
    /\ ret = [op |-> "init", args |-> <<>>, result |-> Success, invoked |-> <<>>,
              before |-> Null, after |-> Null]

\* nomos_da_encoded_data_get_share of a column in 0..share_count-1 into an
\* empty slot
GetShareOfColumn ==
    \E slot \in 1..MaxShares :
        \E index \in 0..(nomos_da_encoded_data_get_share_count(out_handle) - 1) :
            /\ share_handles[slot] = Null
            /\ LET o == nomos_da_encoded_data_get_share(out_handle, index, FALSE,
                                                        share_handles[slot])
               IN /\ share_handles' = [share_handles EXCEPT ![slot] = o.out]
                  /\ heap' = IF o.result = Success THEN Box_into_raw(heap, o.out)
                             ELSE heap
                  /\ last_error' = set_error(last_error, o.error)
                  /\ ret' = Call("get_share", [index |-> index, slot |-> slot], o,
                                 share_handles[slot], Null)
            /\ UNCHANGED <<peer_error, encoder, verifier, original_data, out_handle,
                           commitments_handle, buffer>>

\* this caller encodes one blob
NextTest ==
    \/ last_error = Null /\ original_data = Null /\ EncoderEncode
    \/ last_error = Null /\ GetShareOfColumn
    \/ last_error = Null /\ VerifierVerify
    \/ last_error = Null /\ ShareFree
    \/ GetLastError

SpecTest == InitTest /\ [][NextTest]_vars

----------------------------------------------------------------------------
(* A caller that passes null pointers: each call below has at least one     *)
(* null among its required pointers, next to arguments that are valid or    *)
(* invalid in another way.                                                  *)

\* the pointer a caller passes: null or the one it holds
NullOr(is_null, pointer) == IF is_null THEN Null ELSE pointer

\* which of n pointers are null: at least one of them
NullChoices(n) ==
    {nulls \in [1..n -> BOOLEAN] : \E i \in 1..n : nulls[i]}

\* the record of a call with null pointers
NullCall(op, nulls, args, o, before) ==
    [op |-> op, args |-> args, nulls |-> nulls, result |-> o.result,
     invoked |-> o.invoked, before |-> before, after |-> o.out]

\* nomos_da_encoder_encode(encoder, data, data_len, out_handle)
NullEncode ==
    \E nulls \in NullChoices(3), data_len \in {0, ChunkSize} :
        LET data == Bytes(TestData(ChunkSize, 1))
            o == nomos_da_encoder_encode(NullOr(nulls[1], encoder),
                     NullOr(nulls[2], data), data_len, nulls[3], out_handle)
        IN /\ out_handle' = IF nulls[3] THEN out_handle ELSE o.out
           /\ last_error' = set_error(last_error, o.error)
           /\ ret' = NullCall("encode", nulls, [data_len |-> data_len], o,
                              out_handle)
           /\ UNCHANGED <<peer_error, encoder, verifier, original_data, share_handles, owned>>

\* nomos_da_encoded_data_get_data(handle, out_data, out_len)
NullGetData ==
    \E nulls \in NullChoices(3), cap \in {1, ChunkSize} :
        LET buf == Bytes(Zeros(cap))
            o == nomos_da_encoded_data_get_data(NullOr(nulls[1], out_handle),
                     NullOr(nulls[2], buf), nulls[3], cap)
        IN /\ last_error' = set_error(last_error, o.error)
           /\ ret' = NullCall("get_data", nulls, [cap |-> cap], o,
                              <<NullOr(nulls[2], buf), cap>>)
           /\ UNCHANGED <<peer_error, encoder, verifier, original_data, out_handle,
                          share_handles, owned>>

\* nomos_da_encoded_data_get_share(handle, index, out_share_handle)
NullGetShare ==
    \E nulls \in NullChoices(2), index \in {0, SetMax(ColumnCounts)},
       slot \in 1..MaxShares :
        LET o == nomos_da_encoded_data_get_share(NullOr(nulls[1], out_handle),
                     index, nulls[2], share_handles[slot])
        IN /\ share_handles' = [share_handles EXCEPT
                                   ![slot] = IF nulls[2] THEN @ ELSE o.out]
           /\ last_error' = set_error(last_error, o.error)
           /\ ret' = NullCall("get_share", nulls,
                              [index |-> index, slot |-> slot], o,
                              share_handles[slot])
           /\ UNCHANGED <<peer_error, encoder, verifier, original_data, out_handle, owned>>

\* nomos_da_share_get_commitments(share_handle, out_commitments_handle)
NullShareGetCommitments ==
    \E nulls \in NullChoices(2) :
        LET o == nomos_da_share_get_commitments(NullOr(nulls[1], share_handles[1]),
                     nulls[2], commitments_handle)
        IN /\ commitments_handle' = IF nulls[2] THEN commitments_handle ELSE o.out
           /\ last_error' = set_error(last_error, o.error)
           /\ ret' = NullCall("share_get_commitments", nulls, <<>>, o,
                              commitments_handle)
           /\ UNCHANGED <<peer_error, encoder, verifier, original_data, out_handle,
                          share_handles, buffer, heap>>

\* nomos_da_share_serialize(share_handle, out_buffer, out_len)
NullShareSerialize ==
    \E nulls \in NullChoices(3) :
        LET o == nomos_da_share_serialize(NullOr(nulls[1], share_handles[1]),
                     nulls[2], nulls[3], buffer)
        IN /\ buffer' = IF nulls[2] /\ nulls[3] THEN buffer ELSE o.out
           /\ last_error' = set_error(last_error, o.error)
           /\ ret' = NullCall("share_serialize", nulls, <<>>, o, buffer)
           /\ UNCHANGED <<peer_error, encoder, verifier, original_data, out_handle,
                          share_handles, commitments_handle, heap>>

\* nomos_da_commitments_serialize(commitments_handle, out_buffer, out_len)
NullCommitmentsSerialize ==
    \E nulls \in NullChoices(3) :
        LET o == nomos_da_commitments_serialize(
                     NullOr(nulls[1], commitments_handle), nulls[2], nulls[3],
                     buffer)
        IN /\ buffer' = IF nulls[2] /\ nulls[3] THEN buffer ELSE o.out
           /\ last_error' = set_error(last_error, o.error)
           /\ ret' = NullCall("commitments_serialize", nulls, <<>>, o, buffer)
           /\ UNCHANGED <<peer_error, encoder, verifier, original_data, out_handle,
                          share_handles, commitments_handle, heap>>

\* nomos_da_share_deserialize(data, data_len, out_share_handle)
NullShareDeserialize ==
    \E nulls \in NullChoices(2), data_len \in {0, 1} :
        LET o == nomos_da_share_deserialize(NullOr(nulls[1], Bytes(<<0>>)),
                     data_len, nulls[2], share_handles[1])
        IN /\ share_handles' = [share_handles EXCEPT
                                   ![1] = IF nulls[2] THEN @ ELSE o.out]
           /\ last_error' = set_error(last_error, o.error)
           /\ ret' = NullCall("share_deserialize", nulls,
                              [data_len |-> data_len], o, share_handles[1])
           /\ UNCHANGED <<peer_error, encoder, verifier, original_data, out_handle, owned>>

\* nomos_da_commitments_deserialize(data, data_len, out_commitments_handle)
NullCommitmentsDeserialize ==
    \E nulls \in NullChoices(2), data_len \in {0, 1} :
        LET o == nomos_da_commitments_deserialize(NullOr(nulls[1], Bytes(<<0>>)),
                     data_len, nulls[2], commitments_handle)
        IN /\ commitments_handle' = IF nulls[2] THEN commitments_handle ELSE o.out
           /\ last_error' = set_error(last_error, o.error)
           /\ ret' = NullCall("commitments_deserialize", nulls,
                              [data_len |-> data_len], o, commitments_handle)
           /\ UNCHANGED <<peer_error, encoder, verifier, original_data, out_handle,
                          share_handles, buffer, heap>>

\* nomos_da_reconstruct(shares, share_count, out_data, out_len)
NullReconstruct ==
    \E nulls \in NullChoices(3), share_count \in {0, 1} :
        LET o == nomos_da_reconstruct(NullOr(nulls[1], Array(share_handles)),
                     share_count, nulls[2], nulls[3], <<Null, 0>>)
        IN /\ last_error' = set_error(last_error, o.error)
           /\ ret' = NullCall("reconstruct", nulls,
                              [share_count |-> share_count], o, <<Null, 0>>)
           /\ UNCHANGED <<peer_error, encoder, verifier, original_data, out_handle,
                          share_handles, owned>>

\* this caller encodes one blob and reads the last error after every call
\* that left one
NextNull ==
    \/ last_error = Null /\ original_data = Null /\ EncoderEncode
    \/ last_error = Null /\ EncodedDataGetShare
    \/ last_error = Null /\ ShareGetCommitments
    \/ last_error = Null /\ NullEncode
    \/ last_error = Null /\ NullGetData
    \/ last_error = Null /\ NullGetShare
    \/ last_error = Null /\ NullShareGetCommitments
    \/ last_error = Null /\ NullShareSerialize
    \/ last_error = Null /\ NullCommitmentsSerialize
    \/ last_error = Null /\ NullShareDeserialize
    \/ last_error = Null /\ NullCommitmentsDeserialize
    \/ last_error = Null /\ NullReconstruct
    \/ GetLastError

SpecNull == InitOwned /\ [][NextNull]_vars

----------------------------------------------------------------------------
(* A caller that reads the last error when it likes: calls may follow a     *)
(* failed call without a nomos_da_get_last_error in between.                *)

NextErrors ==
    \/ original_data = Null /\ EncoderEncode
    \/ EncodedDataGetShare
    \/ GetData
    \/ VerifierVerify
    \/ DaReconstruct
    \/ GetLastError

SpecErrors == InitOwned /\ [][NextErrors]_vars

----------------------------------------------------------------------------
(* Two threads of the caller.  LAST_ERROR is declared thread_local!: the    *)
(* first thread makes the calls above, which use last_error; the second     *)
(* thread verifies the shares the first one extracted and reads its own     *)
(* last error.                                                              *)

\* the LAST_ERROR of every thread
Slots == <<last_error, peer_error>>

\* mutant: LAST_ERROR is one static for all threads
LAST_ERROR_static(thread) == 1

\* thread_local! LAST_ERROR: the slot a thread reaches
LAST_ERROR(thread) == thread

\* set_error on a thread, when the call reported an error
set_error_on(thread, slots, error) ==
    [slots EXCEPT ![LAST_ERROR(thread)] = set_error(@, error)]

\* take_error on a thread: the slots after it
take_error_on(thread, slots) == [slots EXCEPT ![LAST_ERROR(thread)] = Null]

\* the record of a call of the second thread
PeerCall(op, args, o) ==
    [op |-> op, args |-> args, result |-> o.result, invoked |-> o.invoked,
     before |-> Null, after |-> Null, thread |-> 2]

\* nomos_da_verifier_verify on the second thread
PeerVerify ==
    \E slot \in 1..MaxShares :
        \E a \in (IF share_handles[slot] = Null THEN {<<FALSE, 1, <<>>>>}
                  ELSE OwnedVerifyArgs(ShareColumns(share_handles[slot]))) :
            LET o == nomos_da_verifier_verify(IF a[1] THEN Null ELSE verifier,
                         FlipByte(share_handles[slot], a[3]), a[2])
                slots == set_error_on(2, Slots, o.error)
            IN /\ last_error' = slots[1]
               /\ peer_error' = slots[2]
               /\ ret' = PeerCall("verify",
                              [slot |-> slot, rows_domain_size |-> a[2],
                               flip |-> a[3], verifier_null |-> a[1]], o)
               /\ UNCHANGED <<encoder, verifier, original_data, out_handle,
                              share_handles, owned>>

\* nomos_da_get_last_error on the second thread
PeerGetLastError ==
    LET slots == take_error_on(2, Slots)
    IN /\ ret' = PeerCall("get_last_error", <<>>,
                          Outcome(Slots[LAST_ERROR(2)], Null, Null, <<>>))
       /\ last_error' = slots[1]
       /\ peer_error' = slots[2]
       /\ UNCHANGED <<encoder, verifier, original_data, out_handle,
                      share_handles, owned>>

\* the calls of the two threads interleave
NextThreads ==
    \/ original_data = Null /\ EncoderEncode
    \/ EncodedDataGetShare
    \/ VerifierVerify
    \/ GetLastError
    \/ PeerVerify
    \/ PeerGetLastError

SpecThreads == InitOwned /\ [][NextThreads]_vars

----------------------------------------------------------------------------
(* Callers that only read: after one encoding, the first thread calls the   *)
(* functions that take an EncodedData or share handle without freeing it    *)
(* (it serializes a share once it holds the commitments), and the second    *)
(* thread verifies the same shares concurrently.                            *)

NextReaders ==
    \/ last_error = Null /\ original_data = Null /\ EncoderEncode
    \/ last_error = Null /\ GetShareCount
    \/ last_error = Null /\ GetData
    \/ last_error = Null /\ EncodedDataGetShare
    \/ last_error = Null /\ ShareGetIndex
    \/ last_error = Null /\ ShareGetCommitments
    \/ last_error = Null /\ commitments_handle /= Null /\ ShareSerialize
    \/ last_error = Null /\ DaReconstruct
    \/ GetLastError
    \/ peer_error = Null /\ PeerVerify
    \/ PeerGetLastError

SpecReaders == InitOwned /\ [][NextReaders]_vars

----------------------------------------------------------------------------
(* Vocabulary of the claims *)

\* the column count of the caller's encoder, and the chunks per row
Columns == encoder.column_count
ChunksPerRow == Columns \div 2

\* the last call was op
Called(op) == ret.op = op

\* the caller's slots 1..n hold the shares 0..n-1 of the encoding, in order
HoldsSystematicShares(n) ==
    /\ out_handle /= Null
    /\ n <= MaxShares
    /\ \A i \in 1..n :
          /\ share_handles[i] /= Null
          /\ share_handles[i].share = to_da_share(out_handle.data, i - 1).share

\* the last call reconstructed from the shares 0..c/2-1 of the encoding
ReconstructedSystematic ==
    /\ Called("reconstruct")
    /\ out_handle /= Null
    /\ ret.args.share_count = ChunksPerRow
    /\ HoldsSystematicShares(ChunksPerRow)

\* the bytes nomos_da_reconstruct handed out in the last call
Reconstructed == ret.after[1].bytes

AllZero(bs, from, to) == \A i \in from..to : bs[i] = 0

\* the last call verified the unmodified share of a slot
VerifiedShare ==
    /\ Called("verify")
    /\ share_handles[ret.args.slot] /= Null
    /\ ret.args.flip = <<>>

\* the last call verified a copy of a slot's share with one byte flipped
VerifiedFlipped ==
    /\ Called("verify")
    /\ share_handles[ret.args.slot] /= Null
    /\ ret.args.flip /= <<>>

----------------------------------------------------------------------------
(* Claims *)

\* C1 (as stated): reconstructing from the shares 0..c/2-1 of an encoding
\* returns Success with output bytes equal to Pad(blob), same length and
\* same content.
C1_RoundTripEqualsPad ==
    ReconstructedSystematic =>
        /\ ret.result = Success
        /\ Reconstructed = Pad(original_data.bytes)

\* C1 (amended): reconstructing from the shares 0..c/2-1 of an encoding
\* returns Success; the output starts with Pad(blob) byte for byte and every
\* byte after it is zero; the output equals Pad(blob) when the chunk count of
\* the blob is a multiple of c/2.
C1_RoundTripPrefix ==
    ReconstructedSystematic =>
        LET padded == Pad(original_data.bytes)
        IN /\ ret.result = Success
           /\ Len(Reconstructed) >= Len(padded)
           /\ SubSeq(Reconstructed, 1, Len(padded)) = padded
           /\ AllZero(Reconstructed, Len(padded) + 1, Len(Reconstructed))
           /\ (Len(padded) \div ChunkSize) % ChunksPerRow = 0
                 => Reconstructed = padded

\* C1 witness: a round trip of a blob whose chunks do not fill the last row
C1_Witness ==
    /\ ReconstructedSystematic
    /\ ret.result = Success
    /\ Columns = 4
    /\ Len(original_data.bytes) = 3 * ChunkSize
    /\ Len(Reconstructed) = 4 * ChunkSize

\* C2: a successful reconstruction over the first c/2 shares of a blob of
\* length L outputs exactly ceil(L / ((c/2)*31)) * (c/2) * 31 bytes, the
\* first L being the blob and the rest zero; *out_len is that length.
C2_ReconstructedLength ==
    (ReconstructedSystematic /\ ret.result = Success) =>
        LET L == Len(original_data.bytes)
            row_size == ChunksPerRow * ChunkSize
            expected == CeilDiv(L, row_size) * row_size
        IN /\ Len(Reconstructed) = expected
           /\ ret.after[2] = expected
           /\ SubSeq(Reconstructed, 1, L) = original_data.bytes
           /\ AllZero(Reconstructed, L + 1, expected)

\* C2 witness: c = 4 and L = 31 give 62 bytes
C2_Witness ==
    /\ ReconstructedSystematic
    /\ ret.result = Success
    /\ Columns = 4
    /\ Len(original_data.bytes) = 31
    /\ ret.after[2] = 62

C4_FlippedByteRejected ==
    VerifiedFlipped => ret.result = FALSE

\* C4 witness: the flipped copy of a share was checked by the verifier with
\* the rows_domain_size under which the share itself verifies
C4_Witness ==
    /\ VerifiedFlipped
    /\ ret.args.rows_domain_size = Columns
    /\ ret.invoked = <<"verify">>
    /\ ret.result = FALSE
    /\ nomos_da_verifier_verify(verifier, share_handles[ret.args.slot],
                                Columns).result = TRUE

\* C5: verify with rows_domain_size = 0 returns false without invoking the
\* verifier, for any non-null verifier and share.
C5_ZeroDomainRejected ==
    (Called("verify") /\ share_handles[ret.args.slot] /= Null
        /\ ret.args.rows_domain_size = 0)
    => (ret.result = FALSE /\ ret.invoked = <<>>)

\* C5 witness: rows_domain_size = 0 with a share that verifies otherwise
C5_Witness ==
    /\ VerifiedShare
    /\ ret.args.rows_domain_size = 0
    /\ ret.result = FALSE
    /\ nomos_da_verifier_verify(verifier, share_handles[ret.args.slot],
                                Columns).result = TRUE

\* C6: encode with data_len = 0 returns ErrorInvalidInput, does not call the
\* encoder and leaves *out_handle as it was.
C6_EmptyBlobRejected ==
    (Called("encode") /\ ret.args.data_len = 0) =>
        /\ ret.result = ErrorInvalidInput
        /\ ret.invoked = <<>>
        /\ out_handle = ret.before

\* C6 witness: an empty blob was offered with a null *out_handle
C6_Witness ==
    /\ Called("encode")
    /\ ret.args.data_len = 0
    /\ ret.before = Null
    /\ out_handle = Null

\* C7: encode with a data_len that is no multiple of the chunk size returns
\* ErrorInvalidInput and leaves *out_handle as it was; the encoder then
\* still encodes every well-formed blob.
C7_UnalignedRejected ==
    (Called("encode") /\ ret.args.data_len % ChunkSize /= 0) =>
        /\ ret.result = ErrorInvalidInput
        /\ out_handle = ret.before
        /\ \A len \in AlignedLens :
              nomos_da_encoder_encode(encoder, Bytes(TestData(len, 1)), len,
                                      FALSE, Null).result = Success

\* C7 witness: a blob of 61 bytes was rejected
C7_Witness ==
    /\ Called("encode")
    /\ ret.args.data_len = 61
    /\ ret.result = ErrorInvalidInput

\* C8: the data stored by an accepted encode of len bytes has length
\* ceil(len/31)*31, starts with the input and is zero after it; get_data
\* returns exactly these bytes.
C8_PaddingLaw ==
    /\ out_handle /= Null =>
          LET stored == out_handle.data.data
              len == Len(original_data.bytes)
          IN /\ Len(stored) = CeilDiv(len, ChunkSize) * ChunkSize
             /\ SubSeq(stored, 1, len) = original_data.bytes
             /\ AllZero(stored, len + 1, Len(stored))
    /\ (Called("get_data") /\ ret.result = Success) =>
          /\ ret.after[2] = Len(out_handle.data.data)
          /\ SubSeq(ret.after[1].bytes, 1, ret.after[2]) = out_handle.data.data

\* C8 witness: the stored data of a two-chunk blob was read back
C8_Witness ==
    /\ Called("get_data")
    /\ ret.result = Success
    /\ ret.after[2] = 2 * ChunkSize
    /\ Len(original_data.bytes) = 2 * ChunkSize

\* C9: get_share with index >= columns returns ErrorInvalidInput and leaves
\* *out_share_handle as it was.
C9_IndexOutOfBounds ==
    (Called("get_share") /\ out_handle /= Null
        /\ ret.args.index >= nomos_da_encoded_data_get_share_count(out_handle))
    => /\ ret.result = ErrorInvalidInput
       /\ share_handles[ret.args.slot] = ret.before

\* C9 witness: index = columns, into a slot that held a share
C9_Witness ==
    /\ Called("get_share")
    /\ out_handle /= Null
    /\ ret.args.index = Columns
    /\ ret.before /= Null
    /\ ret.result = ErrorInvalidInput

\* C10: for an encoding made by an encoder of c columns, get_share_count
\* returns c and get_share succeeds for every index in [0, c).
C10_ShareCountIsColumns ==
    /\ (Called("get_share_count") /\ out_handle /= Null) => ret.result = Columns
    /\ (Called("get_share") /\ out_handle /= Null /\ ret.args.index < Columns)
          => /\ ret.result = Success
             /\ share_handles[ret.args.slot] /= Null

\* C10 witness: the last share of a four-column encoding was extracted
C10_Witness ==
    /\ Called("get_share")
    /\ out_handle /= Null
    /\ Columns = 4
    /\ ret.args.index = 3
    /\ ret.result = Success

\* C11: the share extracted with index i carries share_idx = i, and
\* nomos_da_share_get_index reports the share_idx of the share it is given,
\* as a 16-bit value and without an error; so shares extracted with distinct
\* indices report distinct values.
C11_ShareIndex ==
    /\ (Called("get_share") /\ ret.result = Success) =>
          /\ ret.args.index < Columns
          /\ share_handles[ret.args.slot].share.share_idx = ret.args.index
    /\ (Called("share_get_index") /\ share_handles[ret.args.slot] /= Null) =>
          /\ ret.result = share_handles[ret.args.slot].share.share_idx
          /\ ret.result \in 0..(Columns - 1)
          /\ last_error = Null
          /\ \A other \in 1..MaxShares :
                (/\ share_handles[other] /= Null
                 /\ share_handles[other].share /= share_handles[ret.args.slot].share)
                => nomos_da_share_get_index(share_handles[other]).result
                       /= ret.result

\* C11 witness: the index of the last share of a four-column encoding was
\* read while the other slot held share 0
C11_Witness ==
    /\ Called("share_get_index")
    /\ Columns = 4
    /\ share_handles[ret.args.slot] /= Null
    /\ share_handles[ret.args.slot].share = to_da_share(out_handle.data, 3).share
    /\ \E other \in 1..MaxShares :
          /\ share_handles[other] /= Null
          /\ share_handles[other].share.share_idx = 0
    /\ ret.result = 3

\* the last verify call was malformed: null verifier, null share handle or
\* rows_domain_size = 0
MalformedVerify ==
    \/ ret.args.verifier_null
    \/ share_handles[ret.args.slot] = Null
    \/ ret.args.rows_domain_size = 0

\* the messages nomos_da_verifier_verify leaves for a malformed call
MalformedMessages ==
    {Msg("Verifier handle is null"), Msg("Share handle is null"),
     Msg("Rows domain size must be greater than 0")}

\* C13 (as stated): a malformed verify call (null verifier, null share
\* handle, rows_domain_size = 0) is never reported through the return value
\* `false` that reports a corrupted or invalid share.
C13_DistinctReturnValue ==
    (Called("verify") /\ MalformedVerify) => ret.result /= FALSE

\* C13 (amended): a malformed verify call and a rejected share are both
\* reported through the return value false; the caller tells them apart by
\* the last error only: a malformed call does not invoke the verifier and
\* leaves one of the three argument messages, a rejected share leaves
\* "Share verification failed", and a return of true leaves no message.
C13_DistinctMessage ==
    Called("verify") =>
        /\ MalformedVerify =>
              /\ ret.result = FALSE
              /\ ret.invoked = <<>>
              /\ last_error \in MalformedMessages
        /\ (~MalformedVerify /\ ret.result = FALSE) =>
              /\ ret.invoked = <<"verify">>
              /\ last_error = Msg("Share verification failed")
        /\ ret.result = TRUE => (~MalformedVerify /\ last_error = Null)

\* C13 witness: a call with a null verifier returned false for a share whose
\* flipped copy the verifier rejects, with a different message
C13_Witness ==
    /\ Called("verify")
    /\ ret.args.verifier_null
    /\ share_handles[ret.args.slot] /= Null
    /\ ret.result = FALSE
    /\ last_error = Msg("Verifier handle is null")
    /\ LET o == nomos_da_verifier_verify(verifier,
                    FlipByte(share_handles[ret.args.slot], OwnedFlip),
                    ShareColumns(share_handles[ret.args.slot]))
       IN /\ o.result = FALSE
          /\ o.invoked = <<"verify">>
          /\ o.error = Msg("Share verification failed")

\* the serialization of a share handle, and of the commitments of a share
\* handle, as the caller's buffer would hold it
SerializedShare(handle) ==
    nomos_da_share_serialize(handle, FALSE, FALSE, Null).out

SerializedCommitments(handle) ==
    nomos_da_commitments_serialize(handle, FALSE, FALSE, Null).out

CommitmentsOf(share_handle) ==
    nomos_da_share_get_commitments(share_handle, FALSE, Null).out

\* the other slots whose share was serialized into the caller's buffer
ShareInBuffer ==
    {j \in 1..MaxShares :
        /\ j /= ret.args.slot
        /\ share_handles[j] /= Null
        /\ SerializedShare(share_handles[j]) = buffer}

\* the slots with a share whose commitments were serialized into the
\* caller's buffer
CommitmentsInBuffer ==
    {j \in 1..MaxShares :
        /\ share_handles[j] /= Null
        /\ SerializedCommitments(CommitmentsOf(share_handles[j])) = buffer}

\* C15: nomos_da_share_deserialize of the bytes nomos_da_share_serialize
\* produced for a share succeeds and yields a share equal to the original
\* (share_idx, column, proof and commitments), whose serialization is the
\* same bytes; nomos_da_commitments_deserialize of the bytes
\* nomos_da_commitments_serialize produced does the same for commitments.
C15_SerializationRoundTrip ==
    /\ Called("share_deserialize") =>
          \A j \in ShareInBuffer :
              /\ ret.result = Success
              /\ share_handles[ret.args.slot] = share_handles[j]
              /\ SerializedShare(share_handles[ret.args.slot]) = buffer
    /\ Called("commitments_deserialize") =>
          \A j \in CommitmentsInBuffer :
              /\ ret.result = Success
              /\ commitments_handle = CommitmentsOf(share_handles[j])
              /\ SerializedCommitments(commitments_handle) = buffer

\* the commitments of a share of a blob of several rows went through their
\* serialization, next to a slot that holds the same share twice
C15_Witness ==
    /\ Called("commitments_deserialize")
    /\ CommitmentsInBuffer /= {}
    /\ ret.result = Success
    /\ Len(commitments_handle.commitments) > 1
    /\ share_handles[1] /= Null
    /\ share_handles[1] = share_handles[2]

\* a share of a blob of several rows went through its serialization
C15_ShareWitness ==
    /\ Called("share_deserialize")
    /\ ShareInBuffer /= {}
    /\ ret.result = Success
    /\ Len(share_handles[ret.args.slot].share.column) > 1

\* the last call was nomos_da_reconstruct of the shares of the first
\* share_count slots, none of them null
ReconstructedHeld ==
    /\ Called("reconstruct")
    /\ \A i \in 1..ret.args.share_count : share_handles[i] /= Null

\* the row count of the share of a slot
ShareRows(i) == Len(share_handles[i].share.column)

\* the shares supplied in the last call have different row counts, or one of
\* them has no row
InconsistentShares ==
    \/ \E i, j \in 1..ret.args.share_count : ShareRows(i) /= ShareRows(j)
    \/ \E i \in 1..ret.args.share_count : ShareRows(i) = 0

\* the last call wrote neither *out_data nor *out_len
NoOutputWritten == ret.after = ret.before

ViewHandles ==
    {share_handles[i] : i \in {j \in 1..MaxShares : share_handles[j] /= Null}}
        \cup (IF commitments_handle = Null THEN {} ELSE {commitments_handle})

\* the number of handles the caller holds to boxes equal to box
HeldCopies(box) ==
    Cardinality({i \in 1..MaxShares : share_handles[i] = box})
        + (IF commitments_handle = box THEN 1 ELSE 0)

\* a handle is valid when the box behind it has not been dropped
ValidHandles == \A box \in ViewHandles : CopiesIn(box, heap) >= HeldCopies(box)

\* C18: after nomos_da_encoded_data_free and nomos_da_encoder_free of the
\* source, and after nomos_da_share_free of a share, every share handle and
\* commitments handle the caller still holds is valid: its box is on the
\* heap, so get_index, verify, serialize and reconstruct read what they read
\* before the free.
C18_ViewsOwnedIndependently ==
    (out_handle = Null \/ encoder = Null \/ Called("share_free")) => ValidHandles

\* after the encoded data and the encoder were freed, a share verified and
\* the commitments extracted from a share are still held
C18_Witness ==
    /\ Called("verify")
    /\ ret.result = TRUE
    /\ original_data /= Null
    /\ out_handle = Null
    /\ encoder = Null
    /\ commitments_handle /= Null
    /\ ValidHandles

\* the last call extracted the commitments of a share of the caller's live
\* encoding
ExtractedCommitments ==
    /\ Called("share_get_commitments")
    /\ out_handle /= Null
    /\ share_handles[ret.args.slot] /= Null
    /\ share_handles[ret.args.slot].share.rows_commitments
           = out_handle.data.row_commitments

\* the column count of the caller's live encoding
EncodingColumns == nomos_da_encoded_data_get_share_count(out_handle)

\* the share handle nomos_da_encoded_data_get_share gives for an index
ShareAt(index) ==
    nomos_da_encoded_data_get_share(out_handle, index, FALSE, Null).out

\* C19: the commitments nomos_da_share_get_commitments extracts from a share
\* of an encoding are the ordered row commitments of the encoding, one per
\* row (one for a blob that fits one row), and the same for the share of
\* every index of the encoding.
C19_FullRowCommitments ==
    ExtractedCommitments =>
        /\ ret.result = Success
        /\ commitments_handle /= Null
        /\ commitments_handle.commitments = out_handle.data.row_commitments
        /\ Len(commitments_handle.commitments) = Len(out_handle.data.chunked_data)
        /\ Len(out_handle.data.data) <= ChunkSize * (EncodingColumns \div 2)
              => Len(commitments_handle.commitments) = 1
        /\ \A index \in 0..(EncodingColumns - 1) :
              CommitmentsOf(ShareAt(index)) = commitments_handle

\* the commitments of a share other than share 0 of an encoding of several
\* rows were extracted
C19_Witness ==
    /\ ExtractedCommitments
    /\ ret.result = Success
    /\ share_handles[ret.args.slot].share.share_idx > 0
    /\ Len(out_handle.data.chunked_data) > 1
    /\ Len(commitments_handle.commitments) = Len(out_handle.data.chunked_data)

\* the number of chunks in rows
RECURSIVE ChunkCount(_)
ChunkCount(rows) ==
    IF rows = <<>> THEN 0 ELSE Len(Head(rows)) + ChunkCount(Tail(rows))

\* the row count the tests expect for the encoding of the caller's encoder:
\* ceil(padded_len / (31 * c/2))
ExpectedRows == CeilDiv(Len(out_handle.data.data), ChunkSize * ChunksPerRow)

\* C20: an EncodedData produced for c columns has ceil(padded_len/(31*c/2))
\* chunked rows, as many extended rows and as many row commitments; every
\* chunked row holds at most c/2 chunks, and the rows hold padded_len/31
\* chunks together.
C20_RowCounts ==
    out_handle /= Null =>
        /\ Len(out_handle.data.chunked_data) = ExpectedRows
        /\ Len(out_handle.data.extended_data) = ExpectedRows
        /\ Len(out_handle.data.row_commitments) = ExpectedRows
        /\ \A r \in 1..Len(out_handle.data.chunked_data) :
              Len(out_handle.data.chunked_data[r]) <= ChunksPerRow
        /\ ChunkCount(out_handle.data.chunked_data)
              = Len(out_handle.data.data) \div ChunkSize

\* an encoding of several rows whose last row is short was produced
C20_Witness ==
    /\ Called("encode")
    /\ ret.result = Success
    /\ out_handle /= Null
    /\ ExpectedRows > 1
    /\ Len(out_handle.data.chunked_data[ExpectedRows]) < ChunksPerRow

\* C21: in an EncodedData produced for c columns every extended row is c
\* chunks wide, a short last row included, and there are c combined column
\* proofs, so the extended rows hold rows * c chunks.
C21_ExtendedWidth ==
    out_handle /= Null =>
        /\ \A r \in 1..Len(out_handle.data.extended_data) :
              Len(out_handle.data.extended_data[r]) = Columns
        /\ Len(out_handle.data.combined_column_proofs) = Columns
        /\ ChunkCount(out_handle.data.extended_data)
              = Len(out_handle.data.chunked_data) * Columns

\* an encoding whose short last row was extended to the full width
C21_Witness ==
    /\ Called("encode")
    /\ ret.result = Success
    /\ out_handle /= Null
    /\ Len(out_handle.data.chunked_data[ExpectedRows]) < ChunksPerRow
    /\ Len(out_handle.data.extended_data[ExpectedRows]) = Columns

\* the last call verified the unmodified share of a slot, cut from a blob of
\* one chunk, with the caller's verifier and rows_domain_size equal to the
\* column count of the encoder
VerifiedWithColumnCount ==
    /\ VerifiedShare
    /\ ~ret.args.verifier_null
    /\ ret.args.rows_domain_size = Columns
    /\ Len(original_data.bytes) = ChunkSize

\* C22: for a blob of one chunk encoded with 2, 4 or 8 columns,
\* nomos_da_verifier_verify returns true for the share of every index in
\* [0, c) when rows_domain_size is the column count c.
C22_VerifyOneChunk ==
    /\ VerifiedWithColumnCount => ret.result = TRUE
    /\ (out_handle /= Null /\ Len(out_handle.data.data) = ChunkSize) =>
          \A index \in 0..(Columns - 1) :
              nomos_da_verifier_verify(verifier, ShareAt(index), Columns).result
                  = TRUE

\* the last share of an encoding of one chunk with 8 columns verified
C22_Witness ==
    /\ VerifiedWithColumnCount
    /\ Columns = 8
    /\ share_handles[ret.args.slot].share.share_idx = 7
    /\ ret.result = TRUE

\* the last call was nomos_da_encoded_data_get_data on the caller's encoding
GotData == Called("get_data") /\ out_handle /= Null

\* the length of the stored data of the caller's encoding
StoredLen == Len(out_handle.data.data)

\* nomos_da_encoded_data_get_data called again with a buffer of the capacity
\* the last call reported
Retry ==
    nomos_da_encoded_data_get_data(out_handle, Bytes(Zeros(ret.after[2])), FALSE,
                                   ret.after[2])

\* C23: nomos_da_encoded_data_get_data with a capacity below the stored
\* length returns ErrorInvalidInput, leaves the buffer as it was and sets
\* *out_len to the stored length; with a sufficient capacity it returns
\* Success, copies the stored bytes and sets *out_len to their length; a
\* retry with the reported capacity succeeds with the stored bytes.
C23_GetDataCapacity ==
    GotData =>
        /\ ret.args.cap < StoredLen =>
              /\ ret.result = ErrorInvalidInput
              /\ ret.after[1] = ret.before[1]
              /\ ret.after[2] = StoredLen
        /\ ret.args.cap >= StoredLen =>
              /\ ret.result = Success
              /\ SubSeq(ret.after[1].bytes, 1, StoredLen) = out_handle.data.data
              /\ Len(ret.after[1].bytes) = ret.args.cap
              /\ AllZero(ret.after[1].bytes, StoredLen + 1, ret.args.cap)
              /\ ret.after[2] = StoredLen
        /\ Retry.result = Success
        /\ Retry.out = <<Bytes(out_handle.data.data), StoredLen>>

\* a buffer of one chunk was too small for an encoding of two chunks
C23_Witness ==
    /\ GotData
    /\ ret.args.cap = ChunkSize
    /\ StoredLen = 2 * ChunkSize
    /\ ret.result = ErrorInvalidInput
    /\ Retry.result = Success

\* the last call had a null among its required pointers
NullCalled == "nulls" \in DOMAIN ret

\* the messages of the null checks at the head of the functions
NullMessages ==
    {Msg("Encoder handle is null"), Msg("Data pointer is null"),
     Msg("Output handle is null"), Msg("EncodedData handle is null"),
     Msg("Output share handle is null"), Msg("Share handle is null"),
     Msg("Output commitments handle pointer is null"),
     Msg("Commitments handle is null"), Msg("Output buffer pointer is null"),
     Msg("Output length pointer is null"),
     Msg("Output share handle pointer is null"),
     Msg("Shares array pointer is null"), Msg("Output data pointer is null")}

\* C24: a call of encode, get_data, get_share, share_get_commitments,
\* serialize, deserialize or reconstruct with a null required pointer
\* returns ErrorInvalidInput from its null check, before any other
\* validation or work, and leaves every output slot as it was.
C24_NullPointers ==
    NullCalled =>
        /\ ret.result = ErrorInvalidInput
        /\ ret.invoked = <<>>
        /\ ret.after = ret.before
        /\ ret.op /= "get_data" => last_error \in NullMessages
        /\ ret.op = "get_data" => last_error = Null

\* an encode call with a null output handle pointer and an empty blob was
\* refused for the pointer, and the caller's handle is still null
C24_Witness ==
    /\ NullCalled
    /\ Called("encode")
    /\ ret.nulls = <<FALSE, FALSE, TRUE>>
    /\ ret.args.data_len = 0
    /\ ret.result = ErrorInvalidInput
    /\ last_error = Msg("Output handle is null")
    /\ out_handle = Null

\* the last call was nomos_da_reconstruct with no share, or with a null
\* among the first share_count entries of the array
ReconstructedMalformed ==
    /\ Called("reconstruct")
    /\ \/ ret.args.share_count = 0
       \/ \E i \in 1..ret.args.share_count : share_handles[i] = Null

\* C25: nomos_da_reconstruct with share_count == 0 or with a null entry in
\* the shares array returns ErrorInvalidInput with the message of that
\* check, does not invoke the reconstruction and writes neither *out_data
\* nor *out_len.
C25_ReconstructInvalidInput ==
    ReconstructedMalformed =>
        /\ ret.result = ErrorInvalidInput
        /\ ret.invoked = <<>>
        /\ NoOutputWritten
        /\ last_error = IF ret.args.share_count = 0
                        THEN Msg("Share count must be greater than 0")
                        ELSE Msg("Share handle is null")

\* an array whose first entry is a share and whose second entry is null
\* was refused before the reconstruction
C25_Witness ==
    /\ ReconstructedMalformed
    /\ ret.args.share_count = 2
    /\ share_handles[1] /= Null
    /\ share_handles[2] = Null
    /\ ret.result = ErrorInvalidInput
    /\ ret.invoked = <<>>

\* a call of a fallible operation that failed: a result code other than
\* Success, or a verify that returned false
Failed(call) ==
    \/ /\ call.op \in {"encode", "get_data", "get_share", "reconstruct"}
       /\ call.result \in {ErrorInvalidInput, ErrorInternal}
    \/ /\ call.op = "verify"
       /\ call.result = FALSE

\* the last call failed
FailedCall == Failed(ret)

\* C26: after a call that returned ErrorInvalidInput or ErrorInternal, and
\* after a verify that returned false, the last-error slot holds a message,
\* so nomos_da_get_last_error called next returns it.
C26_FailureRecorded == FailedCall => last_error /= Null

\* the messages the failures of an operation leave
MessagesOf(op) ==
    CASE op = "encode" ->
           {Msg("Encoder handle is null"), Msg("Data pointer is null"),
            Msg("Output handle is null"),
            Msg("Data length must be greater than 0"),
            Msg("Data length must be a multiple of chunk size"),
            Msg("Encoding error")}
      [] op = "get_share" ->
           {Msg("EncodedData handle is null"), Msg("Output share handle is null"),
            Msg("Share index is out of bounds")}
      [] op = "verify" ->
           {Msg("Verifier handle is null"), Msg("Share handle is null"),
            Msg("Rows domain size must be greater than 0"),
            Msg("Share verification failed")}
      [] op = "reconstruct" ->
           {Msg("Shares array pointer is null"), Msg("Output data pointer is null"),
            Msg("Output length pointer is null"),
            Msg("Share count must be greater than 0"),
            Msg("Share handle is null"), Msg("Reconstructed data is empty")}
      [] OTHER -> {}

\* one call of the caller, as the last-error slot sees it: a failed call
\* leaves its message, whatever the slot held; any other call leaves the
\* slot as it was; nomos_da_get_last_error returns what the slot holds and
\* empties it, so that a second read in a row returns null
LastErrorStep ==
    /\ Failed(ret') => last_error' \in MessagesOf(ret'.op)
    /\ (~Failed(ret') /\ ret'.op /= "get_last_error") => last_error' = last_error
    /\ ret'.op = "get_last_error" =>
          /\ ret'.result = last_error
          /\ last_error' = Null
          /\ ret.op = "get_last_error" => ret'.result = Null

\* C27: the last-error slot is read once and holds the most recent failure:
\* nomos_da_get_last_error returns the message of the latest failing call
\* since the previous read (a later failure overwrites an earlier one, a
\* successful call does not clear it), and a second read in a row returns
\* null.
C27_LatestFailure == [][LastErrorStep]_vars

\* a call was made by the second thread
ByPeer(call) == "thread" \in DOMAIN call

\* one call, as the two last-error slots see it: a call of one thread
\* leaves the slot of the other thread as it was, and a read returns the
\* content of the reader's own slot
ThreadStep ==
    /\ ByPeer(ret') => last_error' = last_error
    /\ ~ByPeer(ret') => peer_error' = peer_error
    /\ ret'.op = "get_last_error" =>
          ret'.result = IF ByPeer(ret') THEN peer_error ELSE last_error

\* C28: the last-error slot is per thread: under every interleaving of the
\* calls of two threads, a failing call on one thread does not change what
\* nomos_da_get_last_error returns on the other, and a read on one thread
\* does not consume the message of the other.
C28_PerThread == [][ThreadStep]_vars

\* both threads hold a message of their own, the second thread from the
\* call it just made
C28_Witness ==
    /\ ByPeer(ret)
    /\ Called("verify")
    /\ ret.result = FALSE
    /\ peer_error = Msg("Share verification failed")
    /\ last_error = Msg("Share index is out of bounds")

(* The functions that take an EncodedData or a share handle and are not a   *)
(* free.                                                                    *)
ReadingOps ==
    {"get_share_count", "get_data", "get_share", "share_get_index",
     "share_get_commitments", "verify", "share_serialize", "reconstruct"}

(* A step that is one of these calls, made by either thread, successful or  *)
(* failing.                                                                 *)
ReadingStep == ret'.op \in ReadingOps

(* The share a successful get_share of this step wrote equals the column    *)
(* of that index in the EncodedData and every held share of that index.     *)
RepeatedShareEqual ==
    (ret'.op = "get_share" /\ ret'.result = Success) =>
        LET got == share_handles'[ret'.args.slot]
        IN /\ got.share = to_da_share(out_handle.data, ret'.args.index).share
           /\ \A slot \in 1..MaxShares :
                 (/\ share_handles[slot] /= Null
                  /\ share_handles[slot].share.share_idx = ret'.args.index)
                    => share_handles[slot] = got

====
